---------------------------- MODULE Spec2Model ----------------------------
(***************************************************************************)
(* SlicerNNUnet: the nnUNet parameter validation (Parameter.py), the       *)
(* settings round trip, and the inference launcher (SegmentationLogic.py)  *)
(* with its process runner (Process, a wrapper around one qt.QProcess).    *)
(*                                                                         *)
(* Strings whose content the code inspects are sequences of tokens, so     *)
(* that split / strip / startswith / int() are computed the way Python     *)
(* computes them.  "D" abbreviates the seven letters of "Dataset".         *)
(***************************************************************************)
EXTENDS Integers, Sequences, FiniteSets, TLC

VARIABLES
    processKind,   \* "Process" (the default runner) or "Mock" (an injected ProcessProtocol)
    nnUNetParam,   \* SegmentationLogic._nnUNetParam
    disk,          \* model directories on disk: modelPath -> layout
    qstate,        \* QProcess.state(): "NotRunning" | "Starting" | "Running"
    pid,           \* the child the QProcess is attached to, 0 when none
    alive,         \* the external processes of this instance that are running
    exitStatus,    \* how the attached child ended, before the QProcess has noticed
    waiting,       \* the caller is blocked in waitForFinished
    scratch,       \* the QTemporaryDir: [inFiles, outFiles]
    settings,      \* the QSettings store: key -> JSON value
    stored,        \* for each key, the Parameter last written under it (history)
    lastOp,        \* the operation the last step executed
    trace,         \* what that operation did, in order: calls, emissions, file operations
    ret,           \* what that operation returned or raised
    pyenv,         \* the Python environment of the host: extension and installed packages
    installLogic,  \* the InstallLogic: [needsRestart, doAskConfirmation]
    widget         \* the Widget: its controls, isStopping, and the calls it made

vars == <<processKind, nnUNetParam, disk, qstate, pid, alive, exitStatus, waiting,
          scratch, settings, stored, lastOp, trace, ret, pyenv, installLogic, widget>>

hostVars == <<pyenv, installLogic, widget>>

procVars == <<qstate, pid, alive, exitStatus, waiting>>

-----------------------------------------------------------------------------
(* Bounds *)

\* number of external processes the model can tell apart
MaxProcs == 2

\* the segments a loaded file can hold are Segment_1 .. Segment_<MaxSegmentValue>
MaxSegmentValue == 2

-----------------------------------------------------------------------------
(* Python string operations on token sequences *)

Digits == {"0", "1", "5"}

DigitVal(c) == IF c = "0" THEN 0 ELSE IF c = "1" THEN 1 ELSE 5

RECURSIVE SplitOn(_, _, _)
\* str.split(sep) for a separator of Len(sep) tokens; cur is the part being read
SplitOn(s, sep, cur) ==
    IF s = <<>> THEN <<cur>>
    ELSE IF Len(s) >= Len(sep) /\ SubSeq(s, 1, Len(sep)) = sep
         THEN <<cur>> \o SplitOn(SubSeq(s, Len(sep) + 1, Len(s)), sep, <<>>)
         ELSE SplitOn(Tail(s), sep, Append(cur, s[1]))

Split(s, sep) == SplitOn(s, sep, <<>>)

RECURSIVE LStrip(_)
LStrip(s) == IF s # <<>> /\ s[1] = " " THEN LStrip(Tail(s)) ELSE s

RECURSIVE RStrip(_)
RStrip(s) == IF s # <<>> /\ s[Len(s)] = " " THEN RStrip(SubSeq(s, 1, Len(s) - 1)) ELSE s

\* str.strip()
Strip(s) == RStrip(LStrip(s))

RECURSIVE Decimal(_, _)
Decimal(s, acc) == IF s = <<>> THEN acc ELSE Decimal(Tail(s), 10 * acc + DigitVal(s[1]))

\* the literal int() accepts after stripping: digits, single underscores between digits
IsIntLiteral(s) ==
    /\ s # <<>>
    /\ \A i \in 1..Len(s) : s[i] \in Digits \cup {"_"}
    /\ s[1] \in Digits /\ s[Len(s)] \in Digits
    /\ \A i \in 1..(Len(s) - 1) : ~(s[i] = "_" /\ s[i + 1] = "_")

\* Parameter._isConvertibleToInt: int(name) does not raise ValueError
IsConvertibleToInt(s) == IsIntLiteral(Strip(s))

\* int(token); -1 stands for the ValueError int() raises
ParseInt(s) ==
    IF IsConvertibleToInt(s)
    THEN Decimal(SelectSeq(Strip(s), LAMBDA c : c \in Digits), 0)
    ELSE -1

-----------------------------------------------------------------------------
(* Parameter *)

\* pathlib.Path: anchored or not, and its parts
PathOf(a, p) == [abs |-> a, parts |-> p]

DefaultCheckpoint == "checkpoint_final.pth"

DefaultFileEnding == <<".nii", ".gz">>

\* the dataclass defaults; a float is written as its repr: 0.5
DefaultParameter ==
    [folds |-> <<>>, device |-> "cuda", stepSize |-> <<"0", ".", "5">>, disableTta |-> TRUE,
     nProcessPreprocessing |-> 1, nProcessSegmentationExport |-> 1,
     checkPointName |-> "", modelPath |-> PathOf(FALSE, <<>>)]

NoParam == [none |-> TRUE]

_getCheckpointName(p) == IF p.checkPointName # "" THEN p.checkPointName ELSE DefaultCheckpoint

\* [int(f) for f in self.folds.strip().split(",")] if self.folds else [0]
_foldsAsList(p) ==
    IF p.folds # <<>>
    THEN LET toks == Split(Strip(p.folds), <<",">>)
         IN  [i \in 1..Len(toks) |-> ParseInt(toks[i])]
    ELSE <<0>>

\* no int(f) of _foldsAsList raises ValueError
FoldsWellFormed(p) == \A i \in 1..Len(_foldsAsList(p)) : _foldsAsList(p)[i] >= 0


-----------------------------------------------------------------------------
(* The model directory a modelPath points to.                              *)
(*   underPath   : modelPath.rglob("dataset.json") has a match             *)
(*   pathFiles   : the checkpoint files lying directly in modelPath        *)
(*   underParent : modelPath.parent.rglob("dataset.json") has a match      *)
(* The other fields describe the folder of the dataset.json that is found: *)
(*   foldDirs    : the i for which fold_<i> exists beside it               *)
(*   weights     : <<i, name>> when fold_<i> holds a file of that name     *)
(*   confName    : the name of that folder                                 *)
(*   dsName      : the name of its parent folder                           *)
(*   fileEnding  : dataset.json's "file_ending", <<>> when it declares none  *)
(*   hasLabels, labels : dataset.json's "labels", in file order            *)

Layout(p) == disk[p.modelPath]

\* Parameter._datasetFilePath is not None: the search under modelPath, then, when
\* modelPath itself holds the checkpoint file, the search under its parent
_isDatasetPathValid(p) ==
    \/ Layout(p).underPath
    \/ (_getCheckpointName(p) \in Layout(p).pathFiles /\ Layout(p).underParent)

\* variant: the folds whose folder exists
_getMissingFolds_Existing(p) ==
    SelectSeq(_foldsAsList(p), LAMBDA fold : fold \in Layout(p).foldDirs)

\* [fold for fold, path in self._getFoldPaths() if not path.exists()]
_getMissingFolds(p) ==
    SelectSeq(_foldsAsList(p), LAMBDA fold : fold \notin Layout(p).foldDirs)

\* [fold for fold, path in ... if not path.joinpath(self._getCheckpointName()).exists()]
_getFoldsWithInvalidWeights(p) ==
    SelectSeq(_foldsAsList(p),
              LAMBDA fold : <<fold, _getCheckpointName(p)>> \notin Layout(p).weights)

\* self._configurationFolder.name.split("__")
_configurationNameParts(p) == Split(Layout(p).confName, <<"_", "_">>)

_datasetName(p) == Layout(p).dsName

\* self._datasetName.startswith("Dataset") or self._isConvertibleToInt(self._datasetName)
_isDatasetNameValid(p) ==
    \/ (_datasetName(p) # <<>> /\ _datasetName(p)[1] = "D")
    \/ IsConvertibleToInt(_datasetName(p))

\* what isValid gives: the (ok, reason) it returns and the folds the reason lists,
\* or the exception it raises
Verdict(ok, reason, folds) == [ok |-> ok, reason |-> reason, folds |-> folds, raised |-> ""]

Raised(exc) == [ok |-> FALSE, reason |-> "", folds |-> <<>>, raised |-> exc]

MsgNoDataset == "dataset.json file is missing."
MsgMissingFolds == "Model folder is missing the following folds"
MsgInvalidWeights == "Following model folds don't contain weights"
MsgInvalidConf == "Invalid nnUNet configuration folder"
MsgInvalidDataset == "Invalid Dataset folder name"

\* variant: the dataset folder name is looked at before folds and checkpoints
isValid_NameBeforeFolds(p) ==
    IF ~_isDatasetPathValid(p) THEN Verdict(FALSE, MsgNoDataset, <<>>)
    ELSE IF ~_isDatasetNameValid(p) THEN Verdict(FALSE, MsgInvalidDataset, <<>>)
    ELSE IF ~FoldsWellFormed(p) THEN Raised("ValueError")
    ELSE IF _getMissingFolds(p) # <<>>
         THEN Verdict(FALSE, MsgMissingFolds, _getMissingFolds(p))
    ELSE IF _getFoldsWithInvalidWeights(p) # <<>>
         THEN Verdict(FALSE, MsgInvalidWeights, _getFoldsWithInvalidWeights(p))
    ELSE IF Len(_configurationNameParts(p)) # 3 THEN Verdict(FALSE, MsgInvalidConf, <<>>)
    ELSE Verdict(TRUE, "", <<>>)

\* Parameter.isValid; the int() of a folds token that is no integer raises in
\* _getMissingFolds, once dataset.json is found
isValid(p) ==
    IF ~_isDatasetPathValid(p) THEN Verdict(FALSE, MsgNoDataset, <<>>)
    ELSE IF ~FoldsWellFormed(p) THEN Raised("ValueError")
    ELSE IF _getMissingFolds(p) # <<>>
         THEN Verdict(FALSE, MsgMissingFolds, _getMissingFolds(p))
    ELSE IF _getFoldsWithInvalidWeights(p) # <<>>
         THEN Verdict(FALSE, MsgInvalidWeights, _getFoldsWithInvalidWeights(p))
    ELSE IF Len(_configurationNameParts(p)) # 3 THEN Verdict(FALSE, MsgInvalidConf, <<>>)
    ELSE IF ~_isDatasetNameValid(p) THEN Verdict(FALSE, MsgInvalidDataset, <<>>)
    ELSE Verdict(TRUE, "", <<>>)

\* Parameter.readFileEndingFromDatasetFile
readFileEndingFromDatasetFile(p) ==
    IF ~_isDatasetPathValid(p) THEN DefaultFileEnding
    ELSE IF Layout(p).fileEnding = <<>> THEN DefaultFileEnding
    ELSE Layout(p).fileEnding

\* f"Segment_{v}"
SegmentId(v) == <<"Segment_", v>>

\* Parameter.readSegmentIdsAndLabelsFromDatasetFile: None, the (segment id, label)
\* pairs in file order, or the AttributeError of None.items() when dataset.json
\* has no "labels"
readSegmentIdsAndLabelsFromDatasetFile(p) ==
    IF ~_isDatasetPathValid(p) THEN [kind |-> "None", pairs |-> <<>>]
    ELSE IF ~Layout(p).hasLabels THEN [kind |-> "AttributeError", pairs |-> <<>>]
    ELSE [kind |-> "list",
          pairs |-> [i \in 1..Len(Layout(p).labels) |->
                        <<SegmentId(Layout(p).labels[i][2]), Layout(p).labels[i][1]>>]]

-----------------------------------------------------------------------------
(* Signals and what one operation does *)

\* one entry of an operation's trace: a call on, or an emission of, object o
Call(o, e) == [o |-> o, e |-> e, t |-> "", fwd |-> FALSE]

Emission(o, sig, text, fwd) == [o |-> o, e |-> sig, t |-> text, fwd |-> fwd]

\* a call that reads or writes a value: a is what was read or written
Looked(o, e, name, a) == [o |-> o, e |-> e, t |-> name, fwd |-> FALSE, a |-> a]

\* how many entries of a trace are the call or emission e of object o
Count(tr, o, e) == Cardinality({i \in DOMAIN tr : tr[i].o = o /\ tr[i].e = e})

\* the position of the first such entry
FirstIndex(tr, o, e) ==
    CHOOSE i \in DOMAIN tr : tr[i].o = o /\ tr[i].e = e
                              /\ \A j \in 1..(i - 1) : ~(tr[j].o = o /\ tr[j].e = e)

\* Signal.__call__: the emission, then every subscriber in registration order,
\* synchronously; a subscriber that is a signal of the logic emits in turn
SignalCall(o, sig, text, subscribers) ==
    <<Emission(o, sig, text, FALSE)>>
        \o [i \in 1..Len(subscribers) |-> Emission("logic", subscribers[i], text, TRUE)]

\* variant: readInfo wired to errorOccurred
ProcessConnections_ReadInfoToError ==
    [finished |-> <<"inferenceFinished">>,
     errorOccurred |-> <<"errorOccurred">>,
     readInfo |-> <<"errorOccurred">>]

\* SegmentationLogic.__init__: inferenceProcess.<signal>.connect(self.<signal>)
ProcessConnections ==
    [finished |-> <<"inferenceFinished">>,
     errorOccurred |-> <<"errorOccurred">>,
     readInfo |-> <<"progressInfo">>]

\* an emission of a signal of the process runner
ProcessEmit(sig, text) == SignalCall("process", sig, text, ProcessConnections[sig])

\* an emission of a signal of the logic by the logic itself
LogicEmit(sig, text) == SignalCall("logic", sig, text, <<>>)

\* Process._report: emits only a non-empty text
_report(text, sig) == IF text # "" THEN ProcessEmit(sig, text) ELSE <<>>

\* QProcess.readAllStandardError() of a QProcess in MergedChannels mode: stderr is
\* merged into stdout, the error channel holds nothing
readAllStandardError == ""

-----------------------------------------------------------------------------
(* The process runner: Process around one QProcess.                        *)
(* P = [qstate, pid, alive, exitStatus].  QProcess changes state() only    *)
(* when it processes the child's notifications (in the event loop or in    *)
(* waitForFinished): kill() ends the child and leaves state() as it is,    *)
(* and start() on a QProcess whose state() is not NotRunning is ignored    *)
(* ("QProcess::start: Process is already running").                        *)

CurProc == [qstate |-> qstate, pid |-> pid, alive |-> alive, exitStatus |-> exitStatus]

FreshPids(P) == {n \in 1..MaxProcs : n \notin P.alive /\ n # P.pid}

FreshPid(P) == CHOOSE n \in FreshPids(P) : \A m \in FreshPids(P) : n <= m

\* QProcess.kill()
QProcessKill(P) ==
    IF P.pid \in P.alive
    THEN [P EXCEPT !.alive = @ \ {P.pid}, !.exitStatus = "crashed"]
    ELSE P

\* a child is forked for the QProcess; launchOk: the program can be executed;
\* sync: the platform reports Running from within start()
Spawn(P, launchOk, sync) ==
    IF FreshPids(P) = {} THEN P
    ELSE [qstate     |-> IF launchOk /\ sync THEN "Running" ELSE "Starting",
          pid        |-> FreshPid(P),
          alive      |-> IF launchOk THEN P.alive \cup {FreshPid(P)} ELSE P.alive,
          exitStatus |-> IF launchOk THEN "none" ELSE "failedToStart"]

\* QProcess.start(program, args, openMode)
QProcessStart(P, launchOk, sync) ==
    IF P.qstate # "NotRunning" THEN P ELSE Spawn(P, launchOk, sync)

\* Process.stop
ProcessStop(P) ==
    IF P.qstate = "Running"
    THEN [P  |-> QProcessKill(P),
          tr |-> ProcessEmit("readInfo", "Killing process.") \o <<Call("qprocess", "kill")>>]
    ELSE [P |-> P, tr |-> <<>>]

\* a start that neither stops the running child nor reuses the QProcess
ProcessStart_NewQProcess(P, launchOk, sync) ==
    [P  |-> Spawn(P, launchOk, sync), tr |-> <<Call("qprocess", "start")>>]

\* Process.start
ProcessStart(P, launchOk, sync) ==
    [P  |-> QProcessStart(ProcessStop(P).P, launchOk, sync),
     tr |-> ProcessStop(P).tr \o <<Call("qprocess", "start")>>]

\* self.inferenceProcess.start(...): the Process, or the injected runner whose
\* methods only record the call
RunnerStart(kind, P, launchOk, sync) ==
    IF kind = "Mock" THEN [P |-> P, tr |-> <<Call("runner", "start")>>]
    ELSE [P  |-> ProcessStart(P, launchOk, sync).P,
          tr |-> <<Call("runner", "start")>> \o ProcessStart(P, launchOk, sync).tr]

\* self.inferenceProcess.stop()
RunnerStop(kind, P) ==
    IF kind = "Mock" THEN [P |-> P, tr |-> <<Call("runner", "stop")>>]
    ELSE [P |-> ProcessStop(P).P, tr |-> <<Call("runner", "stop")>> \o ProcessStop(P).tr]

-----------------------------------------------------------------------------
(* SegmentationLogic *)

\* file names are a stem followed by its suffixes: volume_0000.nii.gz
VolumeStem == "volume_0000"

ExportedVolumeName == <<VolumeStem, ".nii", ".gz">>

EmptyScratch == [dirs |-> FALSE, inFiles |-> {}, outFiles |-> {}]

\* SegmentationLogic._prepareInferenceDir; exportOk: slicer.util.exportNode wrote the file
_prepareInferenceDir(exportOk) ==
    [scratch |-> [dirs     |-> TRUE,
                  inFiles  |-> IF exportOk THEN {ExportedVolumeName} ELSE {},
                  outFiles |-> {}],
     tr      |-> <<Call("fs", "remove"), Call("fs", "mkdir output"), Call("fs", "mkdir input")>>
                   \o LogicEmit("progressInfo", "Transferring volume to nnUNet")
                   \o <<Call("fs", "exportNode")>>,
     ok      |-> exportOk]

\* qt.QTemporaryDir().path() of self._tmpDir
_tmpDirPath == PathOf(TRUE, <<"tmp">>)

\* Parameter.modelFolder: self._datasetFolder.parent, the folder that holds the
\* Dataset folder of the dataset.json found for modelPath; it exists when
\* dataset.json does
modelFolder(p) == [holdsDatasetFolderOf |-> p.modelPath, exists |-> _isDatasetPathValid(p)]

\* variant: the variables point at the temporary directory of the logic
SetEnviron_TmpDir(p) ==
    <<Looked("environ", "nnUNet_preprocessed", "", _tmpDirPath),
      Looked("environ", "nnUNet_raw", "", _tmpDirPath),
      Looked("environ", "nnUNet_results", "", _tmpDirPath)>>

\* os.environ[...] = self._nnUNetParam.modelFolder.as_posix(), three times
SetEnviron(p) ==
    <<Looked("environ", "nnUNet_preprocessed", "", modelFolder(p)),
      Looked("environ", "nnUNet_raw", "", modelFolder(p)),
      Looked("environ", "nnUNet_results", "", modelFolder(p))>>

\* SegmentationLogic._startInferenceProcess; predictFound: _findUNetPredictPath() is not None
_startInferenceProcess(kind, p, P, predictFound, launchOk, sync) ==
    IF ~predictFound
    THEN [P |-> P, outcome |-> "noPredictPath",
          tr |-> LogicEmit("errorOccurred", "Failed to find nnUNet predict path.")]
    ELSE IF p = NoParam
    THEN [P |-> P, outcome |-> "AttributeError", tr |-> <<>>]
    ELSE IF isValid(p).raised # ""
    THEN [P |-> P, outcome |-> isValid(p).raised, tr |-> <<>>]
    ELSE IF ~isValid(p).ok
    THEN [P |-> P, outcome |-> "invalid",
          tr |-> LogicEmit("errorOccurred", isValid(p).reason)]
    ELSE [P |-> RunnerStart(kind, P, launchOk, sync).P, outcome |-> "started",
          tr |-> SetEnviron(p) \o LogicEmit("progressInfo", "nnUNet preprocessing...")
                   \o RunnerStart(kind, P, launchOk, sync).tr]

StartResult(outcome, exportOk, predictFound, P, Q) ==
    [status       |-> IF outcome \in {"AttributeError", "ValueError"} THEN outcome
                      ELSE "returned",
     outcome      |-> outcome,
     exportOk     |-> exportOk,
     predictFound |-> predictFound,
     prevRunning  |-> P.pid \in P.alive,
     prevStopped  |-> P.pid \notin Q.alive,
     spawned      |-> Q.pid \in Q.alive /\ Q.pid \notin P.alive]

\* variant: a failed export is reported and the launch goes on
startSegmentation_NoReturnOnExportFailure(kind, p, P, exportOk, predictFound, launchOk, sync) ==
    LET prep  == _prepareInferenceDir(exportOk)
        start == _startInferenceProcess(kind, p, P, predictFound, launchOk, sync)
    IN  [P       |-> start.P,
         scratch |-> prep.scratch,
         tr      |-> prep.tr
                       \o (IF prep.ok THEN <<>>
                           ELSE LogicEmit("errorOccurred", "Failed to export volume node"))
                       \o start.tr,
         ret     |-> StartResult(start.outcome, exportOk, predictFound, P, start.P)]

\* SegmentationLogic.startSegmentation
startSegmentation(kind, p, P, exportOk, predictFound, launchOk, sync) ==
    LET prep  == _prepareInferenceDir(exportOk)
        start == _startInferenceProcess(kind, p, P, predictFound, launchOk, sync)
    IN  IF ~prep.ok
        THEN [P       |-> P,
              scratch |-> prep.scratch,
              tr      |-> prep.tr \o LogicEmit("errorOccurred", "Failed to export volume node"),
              ret     |-> StartResult("exportFailed", exportOk, predictFound, P, P)]
        ELSE [P       |-> start.P,
              scratch |-> prep.scratch,
              tr      |-> prep.tr \o start.tr,
              ret     |-> StartResult(start.outcome, exportOk, predictFound, P, start.P)]

\* pathlib's match of the pattern "*.nii*": some suffix of the name is .nii
MatchesNiiPattern(f) == \E i \in 2..Len(f) : f[i] = ".nii"

\* SegmentationLogic._outFile draws from self.nnUNetOutDir.rglob("*.nii*")
OutFileCandidates(sc) == {f \in sc.outFiles : MatchesNiiPattern(f)}

\* the name a loaded segment carries before any renaming: its id
GeneratedName(v) == [text |-> "Segment_", n |-> v]

LabelName(label) == [text |-> label, n |-> -1]

RECURSIVE ApplyLabels_BreakOnMissing(_, _)
\* variant: the renaming stops at the first label without a segment
ApplyLabels_BreakOnMissing(names, pairs) ==
    IF pairs = <<>> THEN names
    ELSE IF pairs[1][1][2] \notin DOMAIN names THEN names
    ELSE ApplyLabels_BreakOnMissing(
             [names EXCEPT ![pairs[1][1][2]] = LabelName(pairs[1][2])], Tail(pairs))

RECURSIVE ApplyLabels(_, _)
\* the loop of _renameSegments over (segmentId, label): names maps the label value v
\* of each loaded segment Segment_<v> to its name; GetSegment(id) is None: continue
ApplyLabels(names, pairs) ==
    IF pairs = <<>> THEN names
    ELSE IF pairs[1][1][2] \notin DOMAIN names THEN ApplyLabels(names, Tail(pairs))
    ELSE ApplyLabels([names EXCEPT ![pairs[1][1][2]] = LabelName(pairs[1][2])], Tail(pairs))

\* SegmentationLogic._renameSegments
_renameSegments(p, names) ==
    IF p = NoParam THEN [status |-> "AttributeError", names |-> names]
    ELSE LET labels == readSegmentIdsAndLabelsFromDatasetFile(p)
         IN  IF labels.kind = "None" THEN [status |-> "ok", names |-> names]
             ELSE IF labels.kind = "AttributeError"
             THEN [status |-> "AttributeError", names |-> names]
             ELSE [status |-> "ok", names |-> ApplyLabels(names, labels.pairs)]

NoFile == <<>>

\* SegmentationLogic.loadSegmentation; file: what rglob yields first (NoFile when it
\* yields nothing); segs: the label values of the segments the host loads from it
loadSegmentation(p, file, segs) ==
    IF file = NoFile
    THEN [status |-> "RuntimeError", file |-> NoFile, segs |-> {},
          names |-> <<>>, text |-> "Check the inference folder content output"]
    ELSE LET renamed == _renameSegments(p, [v \in segs |-> GeneratedName(v)])
         IN  [status |-> renamed.status, file |-> file, segs |-> segs,
              names |-> renamed.names, text |-> ""]

-----------------------------------------------------------------------------
(* The model directories of the launcher runs *)

MkLayout(up, pf, upar, fd, w, conf, ds, fe, hl, ls) ==
    [underPath |-> up, pathFiles |-> pf, underParent |-> upar, foldDirs |-> fd,
     weights |-> w, confName |-> conf, dsName |-> ds, fileEnding |-> fe,
     hasLabels |-> hl, labels |-> ls]

\* nnUNetTrainer__nnUNetPlans__3d_fullres
ConfName3 == <<"x", "_", "_", "x", "_", "_", "x">>

\* Dataset111_453CT
DatasetName == <<"D", "1", "_", "x">>

TestLabels == <<<<"background", 0>>, <<"Test Label 1", 1>>, <<"Test Label 3", 3>>>>

TrainedModel(fileEnding, hasLabels, labels) ==
    MkLayout(TRUE, {}, FALSE, {0}, {<<0, DefaultCheckpoint>>}, ConfName3, DatasetName,
             fileEnding, hasLabels, labels)

ModelAt(name) == PathOf(TRUE, <<"models", name>>)

ModelNames == {"nii", "plain", "nrrd", "nolabels", "folddir", "empty", "nofold",
               "noweights", "badconf", "badname"}

ModelLayout(name) ==
    CASE name = "nii"       -> TrainedModel(<<".nii", ".gz">>, TRUE, TestLabels)
      [] name = "plain"     -> TrainedModel(<<>>, TRUE, <<<<"A", 1>>, <<"B", 1>>>>)
      [] name = "nrrd"      -> TrainedModel(<<".nrrd">>, TRUE, TestLabels)
      [] name = "nolabels"  -> TrainedModel(<<".nii", ".gz">>, FALSE, <<>>)
      [] name = "folddir"   -> [TrainedModel(<<>>, TRUE, TestLabels) EXCEPT
                                    !.underPath = FALSE, !.pathFiles = {DefaultCheckpoint},
                                    !.underParent = TRUE]
      [] name = "empty"     -> [TrainedModel(<<>>, TRUE, TestLabels) EXCEPT !.underPath = FALSE]
      [] name = "nofold"    -> [TrainedModel(<<>>, TRUE, TestLabels) EXCEPT
                                    !.foldDirs = {}, !.weights = {}]
      [] name = "noweights" -> [TrainedModel(<<>>, TRUE, TestLabels) EXCEPT !.weights = {}]
      [] name = "badconf"   -> [TrainedModel(<<>>, TRUE, TestLabels) EXCEPT
                                    !.confName = <<"x", "_", "_", "x">>]
      [] OTHER              -> [TrainedModel(<<>>, TRUE, TestLabels) EXCEPT !.dsName = <<"x">>]

\* the machine holds one model directory
ModelDisks == {[m \in {ModelAt(n)} |-> ModelLayout(n)] : n \in ModelNames}

\* a folds field that is no list of integers
MalformedFolds == <<"0", ",", "x">>

LaunchParams ==
    {[DefaultParameter EXCEPT !.modelPath = ModelAt(n)] : n \in ModelNames}
        \cup {[DefaultParameter EXCEPT !.modelPath = ModelAt("nii"), !.folds = MalformedFolds]}

\* what the inference writes below the output directory
OutputNames == {<<"volume", ".nii", ".gz">>, <<"volume", ".nrrd">>, <<"plans", ".json">>}

NoRet == [status |-> "none"]

EmptySettings == <<>>

-----------------------------------------------------------------------------
(* The launcher: operations of SegmentationLogic, and the events of its process *)

\* the packages the install deals with; "dep" stands for a dependency of nnunetv2
\* that is not in its skip list
Packages == {"nnunetv2", "pandas", "torch", "acvl_utils", "dynamic_network_architectures", "dep"}

NotInstalled == ""

\* an environment with the PyTorch extension loaded and every package installed
ReadyEnv ==
    [ext |-> "loaded",
     python |-> "3.9",
     pkg |-> [n \in Packages |->
                CASE n = "nnunetv2" -> "2.2"
                  [] n = "acvl_utils" -> "0.2"
                  [] n = "dynamic_network_architectures" -> "0.2.0"
                  [] OTHER -> "1"]]

\* InstallLogic.__init__
NewInstallLogic(doAskConfirmation) ==
    [needsRestart |-> FALSE, doAskConfirmation |-> doAskConfirmation]

\* no Widget has been built
NoWidget == [none |-> TRUE]

Init ==
    /\ processKind \in {"Process", "Mock"}
    /\ nnUNetParam = NoParam
    /\ disk \in ModelDisks
    /\ qstate = "NotRunning"
    /\ pid = 0
    /\ alive = {}
    /\ exitStatus = "none"
    /\ waiting = FALSE
    /\ scratch = EmptyScratch
    /\ settings = EmptySettings
    /\ stored = EmptySettings
    /\ lastOp = "init"
    /\ trace = <<>>
    /\ ret = NoRet
    /\ pyenv = ReadyEnv
    /\ installLogic = NewInstallLogic(TRUE)
    /\ widget = NoWidget

Did(op, tr, r) == lastOp' = op /\ trace' = tr /\ ret' = r

SetProc(P) ==
    qstate' = P.qstate /\ pid' = P.pid /\ alive' = P.alive /\ exitStatus' = P.exitStatus

\* SegmentationLogic.setParameter
SetParameter ==
    /\ ~waiting
    /\ \E p \in LaunchParams : p.modelPath \in DOMAIN disk /\ nnUNetParam' = p
    /\ Did("setParameter", <<>>, NoRet)
    /\ UNCHANGED <<hostVars, processKind, disk, procVars, scratch, settings, stored>>

StartSegmentation ==
    /\ ~waiting
    /\ \E exportOk, predictFound, launchOk, sync \in BOOLEAN :
          LET r == startSegmentation(processKind, nnUNetParam, CurProc,
                                     exportOk, predictFound, launchOk, sync)
          IN  /\ SetProc(r.P)
              /\ scratch' = r.scratch
              /\ Did("startSegmentation", r.tr, r.ret)
    /\ UNCHANGED <<hostVars, processKind, nnUNetParam, disk, waiting, settings, stored>>

\* SegmentationLogic.stopSegmentation
StopSegmentation ==
    /\ ~waiting
    /\ SetProc(RunnerStop(processKind, CurProc).P)
    /\ Did("stopSegmentation", RunnerStop(processKind, CurProc).tr,
           [status |-> "returned", wasRunning |-> pid \in alive])
    /\ UNCHANGED <<hostVars, processKind, nnUNetParam, disk, waiting, scratch, settings, stored>>

\* SegmentationLogic.waitForSegmentationFinished -> Process.waitForFinished ->
\* QProcess.waitForFinished(-1): returns at once when state() is NotRunning, else
\* blocks the caller until the child's end has been processed
WaitForSegmentationFinished ==
    /\ ~waiting
    /\ waiting' = (processKind = "Process" /\ qstate # "NotRunning")
    /\ Did("waitForSegmentationFinished", <<Call("runner", "waitForFinished")>>,
           [status |-> IF processKind = "Process" /\ qstate # "NotRunning"
                       THEN "blocked" ELSE "returned"])
    /\ UNCHANGED <<hostVars, processKind, nnUNetParam, disk, qstate, pid, alive, exitStatus,
                   scratch, settings, stored>>

LoadSegmentation ==
    /\ ~waiting
    /\ \E file \in (IF OutFileCandidates(scratch) = {} THEN {NoFile}
                    ELSE OutFileCandidates(scratch)),
          segs \in SUBSET (1..MaxSegmentValue) :
          Did("loadSegmentation", <<>>, loadSegmentation(nnUNetParam, file, segs))
    /\ UNCHANGED <<hostVars, processKind, nnUNetParam, disk, procVars, scratch, settings, stored>>

\* the child ends by itself: exit code 0, exit code 1, or a crash
ChildExits ==
    /\ pid \in alive
    /\ alive' = alive \ {pid}
    /\ \E how \in {"exit0", "exit1", "crashed"} : exitStatus' = how
    /\ Did("childExits", <<>>, NoRet)
    /\ UNCHANGED <<hostVars, processKind, nnUNetParam, disk, qstate, pid, waiting, scratch,
                   settings, stored>>

\* the inference (or, with an injected runner, the test) writes a file below output
WriteOutput ==
    /\ scratch.dirs
    /\ pid \in alive \/ (processKind = "Mock" /\ ~waiting)
    /\ \E f \in OutputNames : scratch' = [scratch EXCEPT !.outFiles = @ \cup {f}]
    /\ Did("writeOutput", <<>>, NoRet)
    /\ UNCHANGED <<hostVars, processKind, nnUNetParam, disk, procVars, settings, stored>>

\* QProcess processes the child's start notification
EvStarted ==
    /\ qstate = "Starting"
    /\ exitStatus # "failedToStart"
    /\ qstate' = "Running"
    /\ Did("started", <<>>, NoRet)
    /\ UNCHANGED <<hostVars, processKind, nnUNetParam, disk, pid, alive, exitStatus, waiting,
                   scratch, settings, stored>>

\* QProcess.readyRead -> Process._onReadyRead
EvReadyRead ==
    /\ qstate = "Running"
    /\ \E text \in {"", "Predicting"} : Did("readyRead", _report(text, "readInfo"), NoRet)
    /\ UNCHANGED <<hostVars, processKind, nnUNetParam, disk, procVars, scratch, settings, stored>>

\* what the QProcess emits when it processes the end of its child: errorOccurred
\* (-> Process._onErrorOccurred) for a failed start or a crash, finished
\* (-> Process.finished) unless the child never started
_onProcessEnded(how) ==
    (IF how \in {"failedToStart", "crashed"}
     THEN _report(readAllStandardError, "errorOccurred") ELSE <<>>)
      \o (IF how # "failedToStart" THEN ProcessEmit("finished", "") ELSE <<>>)

\* QProcess processes the end of its child, in the event loop or inside waitForFinished
EvProcessEnded ==
    /\ qstate # "NotRunning"
    /\ pid \notin alive
    /\ qstate' = "NotRunning"
    /\ pid' = 0
    /\ exitStatus' = "none"
    /\ waiting' = FALSE
    /\ Did("processEnded", _onProcessEnded(exitStatus), [status |-> "event", how |-> exitStatus])
    /\ UNCHANGED <<hostVars, processKind, nnUNetParam, disk, alive, scratch, settings, stored>>

\* an injected ProcessProtocol emits one of its signals
RunnerEmits ==
    /\ processKind = "Mock"
    /\ \E e \in {<<"finished", "">>, <<"readInfo", "READ">>, <<"errorOccurred", "ERROR">>} :
          Did("runnerEmits", ProcessEmit(e[1], e[2]), NoRet)
    /\ UNCHANGED <<hostVars, processKind, nnUNetParam, disk, procVars, scratch, settings, stored>>

Next ==
    \/ SetParameter
    \/ StartSegmentation
    \/ StopSegmentation
    \/ WaitForSegmentationFinished
    \/ LoadSegmentation
    \/ ChildExits
    \/ WriteOutput
    \/ EvStarted
    \/ EvReadyRead
    \/ EvProcessEnded
    \/ RunnerEmits

Spec == Init /\ [][Next]_vars

-----------------------------------------------------------------------------
(* Parameter.isValid on its own: a Parameter and a model directory are drawn, *)
(* and isValid is called once                                                *)

\* Parameter.folds
FoldsInputs ==
    {<<>>, <<"0">>, <<"5">>, <<"0", ",", "5">>, <<"5", ",", "0">>, <<"0", ",", " ", "5">>,
     <<"0", "5">>, <<"5", ",", "5">>, <<" ", "5", " ">>, MalformedFolds, <<"0", ",">>}

CustomCheckpoint == "custom.pth"

ChkNames == {DefaultCheckpoint, CustomCheckpoint}

ParamInputs ==
    {[DefaultParameter EXCEPT !.folds = f, !.checkPointName = c, !.modelPath = ModelAt("any")] :
        f \in FoldsInputs, c \in {"", CustomCheckpoint}}

\* the fold_<i> folders a model directory may hold
FoldIds == {0, 5}

\* names of the configuration folder
ConfNames ==
    {ConfName3,
     <<"x", "_", "_", "x">>,
     <<"x", "_", "_", "x", "_", "_", "x", "_", "_", "x">>,
     <<"x", "_", "_", "_", "x", "_", "_", "x">>,
     <<"_", "_", "_", "_">>}

\* names of the dataset folder
DatasetNames ==
    {DatasetName, <<"x">>, <<"1", "1">>, <<"1", "_", "1">>, <<"1", "x">>}

Layouts ==
    UNION {{MkLayout(up, pf, upar, fd, w, conf, ds, <<>>, TRUE, <<>>) :
                up \in BOOLEAN, pf \in {{}, {DefaultCheckpoint}, {CustomCheckpoint}},
                upar \in BOOLEAN, w \in SUBSET (fd \X ChkNames),
                conf \in ConfNames, ds \in DatasetNames} :
           fd \in SUBSET FoldIds}

InitParam ==
    /\ processKind = "Process"
    /\ nnUNetParam \in ParamInputs
    /\ disk \in {[m \in {ModelAt("any")} |-> L] : L \in Layouts}
    /\ qstate = "NotRunning"
    /\ pid = 0
    /\ alive = {}
    /\ exitStatus = "none"
    /\ waiting = FALSE
    /\ scratch = EmptyScratch
    /\ settings = EmptySettings
    /\ stored = EmptySettings
    /\ lastOp = "init"
    /\ trace = <<>>
    /\ ret = NoRet
    /\ pyenv = ReadyEnv
    /\ installLogic = NewInstallLogic(TRUE)
    /\ widget = NoWidget

\* Parameter.isValid
IsValidCall ==
    /\ lastOp = "init"
    /\ Did("isValid", <<>>, isValid(nnUNetParam))
    /\ UNCHANGED <<hostVars, processKind, nnUNetParam, disk, procVars, scratch, settings, stored>>

NextParam == IsValidCall

SpecParam == InitParam /\ [][NextParam]_vars

-----------------------------------------------------------------------------
(* Properties of Parameter.isValid *)

\* the folds a folds string requests
RequestedFolds ==
    (<<>> :> {0}) @@ (<<"0">> :> {0}) @@ (<<"5">> :> {5})
        @@ (<<"0", ",", "5">> :> {0, 5}) @@ (<<"5", ",", "0">> :> {0, 5})
        @@ (<<"0", ",", " ", "5">> :> {0, 5}) @@ (<<"0", "5">> :> {5})
        @@ (<<"5", ",", "5">> :> {5}) @@ (<<" ", "5", " ">> :> {5})

\* the configured checkpoint file
ConfiguredCheckpoint ==
    IF nnUNetParam.checkPointName = "" THEN "checkpoint_final.pth"
    ELSE nnUNetParam.checkPointName

TheModelDir == disk[nnUNetParam.modelPath]

\* the configuration folder names with exactly three `__`-delimited parts: x__x__x,
\* x___x__x (x, _x, x) and ____ (three empty parts)
ThreePartNames ==
    {<<"x", "_", "_", "x", "_", "_", "x">>,
     <<"x", "_", "_", "_", "x", "_", "_", "x">>,
     <<"_", "_", "_", "_">>}

\* the dataset folder names that start with Dataset or that int() parses: Dataset1_x,
\* 11 and 1_1
ConventionalDatasetNames == {<<"D", "1", "_", "x">>, <<"1", "1">>, <<"1", "_", "1">>}

DatasetFoundUnderPath == TheModelDir.underPath

DatasetFoundUnderPathOrParent ==
    \/ TheModelDir.underPath
    \/ (ConfiguredCheckpoint \in TheModelDir.pathFiles /\ TheModelDir.underParent)

FoldFoldersPresent ==
    \A i \in RequestedFolds[nnUNetParam.folds] : i \in TheModelDir.foldDirs

CheckpointsPresent ==
    \A i \in RequestedFolds[nnUNetParam.folds] : <<i, ConfiguredCheckpoint>> \in TheModelDir.weights

\* the verdict of five checks made in order, c1 being the first
FirstFailure(c1) ==
    IF ~c1 THEN <<FALSE, MsgNoDataset>>
    ELSE IF ~FoldFoldersPresent THEN <<FALSE, MsgMissingFolds>>
    ELSE IF ~CheckpointsPresent THEN <<FALSE, MsgInvalidWeights>>
    ELSE IF TheModelDir.confName \notin ThreePartNames THEN <<FALSE, MsgInvalidConf>>
    ELSE IF TheModelDir.dsName \notin ConventionalDatasetNames THEN <<FALSE, MsgInvalidDataset>>
    ELSE <<TRUE, "">>

IsValidReturned ==
    lastOp = "isValid" /\ nnUNetParam.folds \in DOMAIN RequestedFolds

C5_MissingFoldsNamed ==
    (IsValidReturned /\ DatasetFoundUnderPathOrParent /\ ~FoldFoldersPresent) =>
        /\ ret.ok = FALSE
        /\ ret.reason = MsgMissingFolds
        /\ {ret.folds[i] : i \in DOMAIN ret.folds}
              = RequestedFolds[nnUNetParam.folds] \ TheModelDir.foldDirs

\* folds 0 and 5 are requested of a model that has fold_0 only
C5_Witness ==
    /\ IsValidReturned
    /\ DatasetFoundUnderPathOrParent
    /\ nnUNetParam.folds = <<"0", ",", "5">>
    /\ TheModelDir.foldDirs = {0}
    /\ ret.reason = MsgMissingFolds
    /\ ret.folds = <<5>>

-----------------------------------------------------------------------------
(* Parameter.toSettings / fromSettings: the Parameter as a JSON value in a   *)
(* QSettings store. Python values are [t |-> type, v |-> value], JSON values *)
(* are [j |-> kind, s |-> content].                                          *)

\* number of settings entries in use
MaxKeys == 2

\* WithinRange(1, 999) of the process counts
MaxProcessCount == 999

\* the annotations of the dataclass fields
FieldTypes ==
    [folds |-> "str", device |-> "str", stepSize |-> "float", disableTta |-> "bool",
     nProcessPreprocessing |-> "int", nProcessSegmentationExport |-> "int",
     checkPointName |-> "str", modelPath |-> "Path"]

\* Parameter.asDict
asDict(p) == [t |-> "dict", v |-> [k \in DOMAIN FieldTypes |-> [t |-> FieldTypes[k], v |-> p[k]]]]

RECURSIVE JoinParts(_)
JoinParts(parts) ==
    IF parts = <<>> THEN <<>>
    ELSE IF Len(parts) = 1 THEN <<parts[1]>>
    ELSE <<parts[1], "/">> \o JoinParts(Tail(parts))

\* str(path): "." for the empty path, the anchor, the parts joined by "/"
StrOfPath(path) ==
    IF path.parts = <<>> THEN (IF path.abs THEN <<"/">> ELSE <<".">>)
    ELSE (IF path.abs THEN <<"/">> ELSE <<>>) \o JoinParts(path.parts)

\* Path(text): anchored when the text starts with "/"; empty and "." parts are dropped
PathFromStr(text) ==
    LET pieces == SelectSeq(Split(text, <<"/">>), LAMBDA x : x # <<>> /\ x # <<".">>)
    IN  PathOf(text # <<>> /\ text[1] = "/", [i \in 1..Len(pieces) |-> pieces[i][1]])

\* variant: the path written as a plain string
_PathEncoder_default_AsStr(obj) == [t |-> "str", v |-> StrOfPath(obj)]

\* _PathEncoder.default: {'_path': str(obj)}
_PathEncoder_default(obj) ==
    [t |-> "dict", v |-> ("_path" :> [t |-> "str", v |-> StrOfPath(obj)])]

\* _PathEncoder.decodePath, the object_hook of json.loads
_PathEncoder_decodePath(obj) ==
    IF "_path" \in DOMAIN obj.v
    THEN [t |-> "Path", v |-> PathFromStr(obj.v["_path"].v)]
    ELSE obj

RECURSIVE JsonDumps(_)
\* json.dumps(value, cls=_PathEncoder)
JsonDumps(x) ==
    CASE x.t = "str"   -> [j |-> "string", s |-> x.v]
      [] x.t = "bool"  -> [j |-> "literal", s |-> IF x.v THEN "true" ELSE "false"]
      [] x.t = "int"   -> [j |-> "number", s |-> <<ToString(x.v)>>]
      [] x.t = "float" -> [j |-> "number", s |-> x.v]
      [] x.t = "dict"  -> [j |-> "object", s |-> [k \in DOMAIN x.v |-> JsonDumps(x.v[k])]]
      [] OTHER         -> JsonDumps(_PathEncoder_default(x.v))

RECURSIVE JsonLoads(_)
\* json.loads(text, object_hook=_PathEncoder.decodePath): a number with a fraction
\* is a float, any other an int; every object goes through the hook
JsonLoads(y) ==
    CASE y.j = "string"  -> [t |-> "str", v |-> y.s]
      [] y.j = "literal" -> [t |-> "bool", v |-> y.s = "true"]
      [] y.j = "number"  ->
            IF \E i \in DOMAIN y.s : y.s[i] = "."
            THEN [t |-> "float", v |-> y.s]
            ELSE [t |-> "int", v |-> CHOOSE n \in 0..MaxProcessCount : <<ToString(n)>> = y.s]
      [] OTHER           ->
            _PathEncoder_decodePath([t |-> "dict", v |-> [k \in DOMAIN y.s |-> JsonLoads(y.s[k])]])

\* Parameter._defaultSettingsKey
_defaultSettingsKey == "SlicerNNUNet/Parameter"

\* key or self._defaultSettingsKey(), settings or qt.QSettings()
SettingsSlot(store, key) ==
    <<IF store = "None" THEN "QSettings()" ELSE store,
      IF key = "" THEN _defaultSettingsKey ELSE key>>

\* Parameter.toSettings: the store afterwards
toSettings(p, st, store, key) ==
    (SettingsSlot(store, key) :> JsonDumps(asDict(p))) @@ st

\* Parameter.fromSettings: a field takes the stored value unless setValue raises
\* TypeError or the store lacks it
fromSettings(st, store, key) ==
    LET slot     == SettingsSlot(store, key)
        val_dict == IF slot \in DOMAIN st THEN JsonLoads(st[slot]).v ELSE <<>>
    IN  [k \in DOMAIN FieldTypes |->
            IF k \in DOMAIN val_dict /\ val_dict[k].t = FieldTypes[k]
            THEN val_dict[k].v
            ELSE DefaultParameter[k]]

\* Parameter(folds="0,1,2", device="cpu", stepSize=0.42, ...) of the round-trip test
TestParameter ==
    [folds |-> <<"0", ",", "1">>, device |-> "cpu", stepSize |-> <<"0", ".", "4", "2">>,
     disableTta |-> FALSE, nProcessPreprocessing |-> 4, nProcessSegmentationExport |-> 2,
     checkPointName |-> "custom", modelPath |-> PathOf(FALSE, <<"PATH">>)]

PathInputs ==
    {PathOf(FALSE, <<"PATH">>), PathOf(TRUE, <<"models", "nii">>), PathOf(TRUE, <<>>),
     PathOf(FALSE, <<"..", "models">>)}

\* the default, the test's value, and values that differ from either in one field
SettingsParams ==
    {DefaultParameter, TestParameter}
        \cup UNION {{[q EXCEPT !.folds = <<"5">>], [q EXCEPT !.device = "mps"],
                     [q EXCEPT !.stepSize = <<"1", ".", "0">>],
                     [q EXCEPT !.disableTta = ~q.disableTta],
                     [q EXCEPT !.nProcessPreprocessing = 12],
                     [q EXCEPT !.nProcessSegmentationExport = MaxProcessCount],
                     [q EXCEPT !.checkPointName = "_path"]} : q \in {DefaultParameter, TestParameter}}
        \cup {[DefaultParameter EXCEPT !.modelPath = path] : path \in PathInputs}

StoreInputs == {"None", "custom"}

KeyInputs == {"", _defaultSettingsKey, "other"}

InitSettings ==
    /\ processKind = "Process"
    /\ nnUNetParam = NoParam
    /\ disk \in {[m \in {ModelAt("nii")} |-> ModelLayout("nii")]}
    /\ qstate = "NotRunning"
    /\ pid = 0
    /\ alive = {}
    /\ exitStatus = "none"
    /\ waiting = FALSE
    /\ scratch = EmptyScratch
    /\ settings = EmptySettings
    /\ stored = EmptySettings
    /\ lastOp = "init"
    /\ trace = <<>>
    /\ ret = NoRet
    /\ pyenv = ReadyEnv
    /\ installLogic = NewInstallLogic(TRUE)
    /\ widget = NoWidget

\* p.toSettings(settings, key)
ToSettings ==
    \E p \in SettingsParams, store \in StoreInputs, key \in KeyInputs :
        /\ Cardinality(DOMAIN settings \cup {SettingsSlot(store, key)}) <= MaxKeys
        /\ settings' = toSettings(p, settings, store, key)
        /\ stored' = (SettingsSlot(store, key) :> p) @@ stored
        /\ Did("toSettings", <<>>, NoRet)
        /\ UNCHANGED <<hostVars, processKind, nnUNetParam, disk, procVars, scratch>>

\* Parameter.fromSettings(settings, key)
FromSettings ==
    \E store \in StoreInputs, key \in KeyInputs :
        /\ Did("fromSettings", <<>>,
               [status |-> "returned", slot |-> SettingsSlot(store, key),
                param |-> fromSettings(settings, store, key)])
        /\ UNCHANGED <<hostVars, processKind, nnUNetParam, disk, procVars, scratch, settings, stored>>

NextSettings == ToSettings \/ FromSettings

SpecSettings == InitSettings /\ [][NextSettings]_vars

-----------------------------------------------------------------------------
(* Properties of the settings round trip *)

\* C6: fromSettings on a store and key returns a Parameter equal, in all eight
\* fields, to the Parameter that toSettings wrote last on that store and key.
C6_SettingsRoundTrip ==
    (lastOp = "fromSettings" /\ ret.slot \in DOMAIN stored) =>
        /\ DOMAIN ret.param = DOMAIN FieldTypes
        /\ \A k \in DOMAIN FieldTypes : ret.param[k] = stored[ret.slot][k]

\* an anchored model path written under the default key comes back
C6_Witness ==
    /\ lastOp = "fromSettings"
    /\ ret.slot \in DOMAIN stored
    /\ stored[ret.slot].modelPath = PathOf(TRUE, <<"models", "nii">>)
    /\ ret.param.modelPath = PathOf(TRUE, <<"models", "nii">>)
    /\ ret.param.modelPath # DefaultParameter.modelPath

-----------------------------------------------------------------------------
(* Parameter.asArgList on its own. torch = [installed, cuda, mps] is what    *)
(* `import torch`, torch.cuda.is_available() and                             *)
(* torch.backends.mps.is_available() give in the running Python.             *)

PyStr(tokens) == [t |-> "str", v |-> tokens]

PyInt(n) == [t |-> "int", v |-> n]

PyFloat(repr) == [t |-> "float", v |-> repr]

\* Parameter.isSelectedDeviceAvailable
isSelectedDeviceAvailable(p, torch) ==
    IF p.device = "cuda" /\ ~torch.cuda THEN FALSE
    ELSE IF p.device = "mps" /\ ~torch.mps THEN FALSE
    ELSE TRUE

\* variant: the configured device whatever the runtime offers
_getDevice_AsConfigured(p, torch) == p.device

\* Parameter._getDevice
_getDevice(p, torch) == IF ~isSelectedDeviceAvailable(p, torch) THEN "cpu" ELSE p.device

\* variant: the plan is taken from the last part of the folder name
ConfigurationArgs_PlanFromLastPart(p) ==
    LET parts == _configurationNameParts(p)
    IN  <<PyStr(<<"-tr">>), PyStr(parts[1]),
          PyStr(<<"-p">>), PyStr(parts[Len(parts)]),
          PyStr(<<"-c">>), PyStr(parts[2])>>

\* "-tr", parts[0], "-p", parts[1], "-c", parts[-1]
ConfigurationArgs(p) ==
    LET parts == _configurationNameParts(p)
    IN  <<PyStr(<<"-tr">>), PyStr(parts[1]),
          PyStr(<<"-p">>), PyStr(parts[2]),
          PyStr(<<"-c">>), PyStr(parts[Len(parts)])>>

\* "-f", *[str(f) for f in self._foldsAsList()]
FoldArgs(p) ==
    <<PyStr(<<"-f">>)>>
        \o [i \in 1..Len(_foldsAsList(p)) |-> PyStr(<<ToString(_foldsAsList(p)[i])>>)]

\* Parameter.asArgList: the list, or the exception raised, and the Parameter afterwards
asArgList(p, inDir, outDir, torch) ==
    IF ~torch.installed
    THEN [status |-> "ModuleNotFoundError", args |-> <<>>, param |-> p]
    ELSE IF isValid(p).raised # ""
    THEN [status |-> isValid(p).raised, args |-> <<>>, param |-> p]
    ELSE IF ~isValid(p).ok
    THEN [status |-> "RuntimeError", args |-> <<>>, param |-> p]
    ELSE [status |-> "returned",
          args   |-> <<PyStr(<<"-i">>), PyStr(StrOfPath(inDir)),
                       PyStr(<<"-o">>), PyStr(StrOfPath(outDir)),
                       PyStr(<<"-d">>), PyStr(_datasetName(p))>>
                     \o ConfigurationArgs(p)
                     \o FoldArgs(p)
                     \o <<PyStr(<<"-npp">>), PyInt(p.nProcessPreprocessing),
                          PyStr(<<"-nps">>), PyInt(p.nProcessSegmentationExport),
                          PyStr(<<"-step_size">>), PyFloat(p.stepSize),
                          PyStr(<<"-device">>), PyStr(<<_getDevice(p, torch)>>),
                          PyStr(<<"-chk">>), PyStr(<<_getCheckpointName(p)>>)>>
                     \o (IF p.disableTta THEN <<PyStr(<<"--disable_tta">>)>> ELSE <<>>),
          param  |-> p]

\* self.nnUNetInDir, self.nnUNetOutDir
nnUNetInDir == PathOf(TRUE, _tmpDirPath.parts \o <<"input">>)

nnUNetOutDir == PathOf(TRUE, _tmpDirPath.parts \o <<"output">>)

ArgFolds == {<<>>, <<"5", ",", "0">>, <<"0", "5">>, <<"0", ",", " ", "5">>, MalformedFolds}

ArgParams ==
    {[DefaultParameter EXCEPT !.folds = f, !.device = d, !.disableTta = tta,
                              !.checkPointName = c, !.nProcessPreprocessing = n[1],
                              !.nProcessSegmentationExport = n[2],
                              !.modelPath = ModelAt("any")] :
        f \in ArgFolds, d \in {"cuda", "cpu", "mps"}, tta \in BOOLEAN,
        c \in {"", CustomCheckpoint}, n \in {<<1, 1>>, <<4, 2>>}}

\* trainer__plan__conf
ConfNameTPC == <<"t", "_", "_", "p", "_", "_", "c">>

ArgLayouts ==
    {MkLayout(up, {}, FALSE, fd, fd \X ChkNames, conf, ds, <<>>, TRUE, <<>>) :
        up \in BOOLEAN, fd \in {{0}, {0, 5}},
        conf \in {ConfNameTPC, <<"x", "_", "_", "_", "x", "_", "_", "x">>,
                  <<"_", "_", "_", "_">>, <<"x", "_", "_", "x">>},
        ds \in {DatasetName, <<"1", "1">>, <<"x">>}}

TorchInputs == [installed : BOOLEAN, cuda : BOOLEAN, mps : BOOLEAN]

InitArgs ==
    /\ processKind = "Process"
    /\ nnUNetParam \in ArgParams
    /\ disk \in {[m \in {ModelAt("any")} |-> L] : L \in ArgLayouts}
    /\ qstate = "NotRunning"
    /\ pid = 0
    /\ alive = {}
    /\ exitStatus = "none"
    /\ waiting = FALSE
    /\ scratch = EmptyScratch
    /\ settings = EmptySettings
    /\ stored = EmptySettings
    /\ lastOp = "init"
    /\ trace = <<>>
    /\ ret = NoRet
    /\ pyenv = ReadyEnv
    /\ installLogic = NewInstallLogic(TRUE)
    /\ widget = NoWidget

\* self._nnUNetParam.asArgList(self.nnUNetInDir, self.nnUNetOutDir)
AsArgListCall ==
    \E torch \in TorchInputs :
        LET r == asArgList(nnUNetParam, nnUNetInDir, nnUNetOutDir, torch)
        IN  /\ lastOp = "init"
            /\ nnUNetParam' = r.param
            /\ Did("asArgList", <<>>,
                   [status |-> r.status, args |-> r.args, torch |-> torch, before |-> nnUNetParam])
            /\ UNCHANGED <<hostVars, processKind, disk, procVars, scratch, settings, stored>>

NextArgs == AsArgListCall

SpecArgs == InitArgs /\ [][NextArgs]_vars

-----------------------------------------------------------------------------
(* Properties of Parameter.asArgList *)

\* the argument that follows the flag
ArgAfter(flag) ==
    {ret.args[i + 1] :
        i \in {j \in 1..(Len(ret.args) - 1) : ret.args[j].t = "str" /\ ret.args[j].v = <<flag>>}}

DeviceUnavailable ==
    \/ (ret.before.device = "cuda" /\ ~ret.torch.cuda)
    \/ (ret.before.device = "mps" /\ ~ret.torch.mps)

\* C11: the argument list carries cpu after -device when the configured device
\* (cuda or mps) is not available and the configured device otherwise, and the
\* Parameter's device field is left as it was.
C11_DeviceFallbackLeavesParameter ==
    (lastOp = "asArgList" /\ ret.status = "returned") =>
        /\ ArgAfter("-device") =
              {PyStr(<<IF DeviceUnavailable THEN "cpu" ELSE ret.before.device>>)}
        /\ nnUNetParam.device = ret.before.device
        /\ nnUNetParam = ret.before

\* cuda is configured, the runtime has none: cpu is passed and cuda stays configured
C11_Witness ==
    /\ lastOp = "asArgList"
    /\ ret.status = "returned"
    /\ ret.before.device = "cuda" /\ ~ret.torch.cuda
    /\ ArgAfter("-device") = {PyStr(<<"cpu">>)}
    /\ nnUNetParam.device = "cuda"

\* the folds a folds string lists, as they are written on the command line
FoldsAsWritten ==
    (<<>> :> <<"0">>) @@ (<<"5", ",", "0">> :> <<"5", "0">>) @@ (<<"0", "5">> :> <<"5">>)
        @@ (<<"0", ",", " ", "5">> :> <<"0", "5">>)

\* the three `__`-separated parts of the configuration folder names
ThreeParts ==
    (<<"t", "_", "_", "p", "_", "_", "c">> :> <<<<"t">>, <<"p">>, <<"c">>>>)
        @@ (<<"x", "_", "_", "_", "x", "_", "_", "x">> :> <<<<"x">>, <<"_", "x">>, <<"x">>>>)
        @@ (<<"_", "_", "_", "_">> :> <<<<>>, <<>>, <<>>>>)

ExpectedArgList(device) ==
    LET p     == ret.before
        dir   == disk[p.modelPath]
        parts == ThreeParts[dir.confName]
        folds == FoldsAsWritten[p.folds]
    IN  <<PyStr(<<"-i">>), PyStr(<<"/", "tmp", "/", "input">>),
          PyStr(<<"-o">>), PyStr(<<"/", "tmp", "/", "output">>),
          PyStr(<<"-d">>), PyStr(dir.dsName),
          PyStr(<<"-tr">>), PyStr(parts[1]), PyStr(<<"-p">>), PyStr(parts[2]),
          PyStr(<<"-c">>), PyStr(parts[3]),
          PyStr(<<"-f">>)>>
        \o [i \in 1..Len(folds) |-> PyStr(<<folds[i]>>)]
        \o <<PyStr(<<"-npp">>), PyInt(p.nProcessPreprocessing),
             PyStr(<<"-nps">>), PyInt(p.nProcessSegmentationExport),
             PyStr(<<"-step_size">>), PyFloat(p.stepSize),
             PyStr(<<"-device">>), PyStr(<<device>>),
             PyStr(<<"-chk">>),
             PyStr(<<IF p.checkPointName = "" THEN "checkpoint_final.pth" ELSE p.checkPointName>>)>>
        \o (IF p.disableTta THEN <<PyStr(<<"--disable_tta">>)>> ELSE <<>>)

\* C12: for a valid Parameter (and an importable torch) asArgList returns, in this
\* order, -i inDir, -o outDir, -d dataset folder name, -tr/-p/-c the three parts of
\* the configuration folder name, -f and every requested fold in the requested
\* order (fold 0 when none is given), -npp, -nps, -step_size, -device, -chk
\* checkpoint name (checkpoint_final.pth when none is given), and a trailing
\* --disable_tta exactly when disableTta is true.
C12_ArgListOrder ==
    (lastOp = "asArgList" /\ ret.torch.installed /\ isValid(ret.before).ok) =>
        /\ ret.status = "returned"
        /\ \E device \in {"cuda", "cpu", "mps"} : ret.args = ExpectedArgList(device)

\* folds 5,0 of trainer__plan__conf with a custom checkpoint and test-time
\* augmentation disabled
C12_Witness ==
    /\ lastOp = "asArgList"
    /\ ret.status = "returned"
    /\ ret.before.folds = <<"5", ",", "0">>
    /\ ret.before.checkPointName = CustomCheckpoint
    /\ ret.before.disableTta
    /\ disk[ret.before.modelPath].confName = ConfNameTPC
    /\ Len(ret.args) = 26

-----------------------------------------------------------------------------
(* InstallLogic: requirements.  A requirement string is a sequence of tokens *)
(* (name, "[", extra, "]", operator, version, ";", marker variable, quote,   *)
(* " "); packaging's Requirement gives its name, extras, specifier (operator *)
(* and version) and marker (variable, operator, value).                      *)

RECURSIVE IndexOf(_, _)
\* the first position of the token, 0 when absent
IndexOf(tokens, tok) ==
    IF tokens = <<>> THEN 0
    ELSE IF tokens[1] = tok THEN 1
    ELSE IF IndexOf(Tail(tokens), tok) = 0 THEN 0
    ELSE 1 + IndexOf(Tail(tokens), tok)

\* Requirement(text): whitespace separates tokens and carries nothing
Requirement(text) ==
    LET toks   == SelectSeq(text, LAMBDA c : c # " ")
        semi   == IndexOf(toks, ";")
        head   == IF semi = 0 THEN toks ELSE SubSeq(toks, 1, semi - 1)
        mark   == IF semi = 0 THEN <<>> ELSE SubSeq(toks, semi + 1, Len(toks))
        close  == IndexOf(head, "]")
    IN  [name      |-> toks[1],
         extras    |-> IF close = 0 THEN <<>>
                       ELSE SelectSeq(SubSeq(head, 3, close - 1), LAMBDA c : c # ","),
         specifier |-> IF close = 0 THEN Tail(head) ELSE SubSeq(head, close + 1, Len(head)),
         marker    |-> IF mark = <<>> THEN <<>>
                       ELSE <<mark[1], mark[2], SelectSeq(SubSeq(mark, 3, Len(mark)),
                                                          LAMBDA c : c # "'")[1]>>]

\* the order of versions: the key of packaging.version.parse(v)
VersionKey(v) ==
    CASE v = "0.9" -> 90 [] v = "1.0" -> 100 [] v = "1" -> 100 [] v = "2.3.0" -> 230
      [] v = "2.2" -> 220 [] v = "0.2" -> 20 [] v = "0.2.0" -> 20 [] v = "0.2.1" -> 21
      [] v = "0.4" -> 40 [] v = "3.8" -> 380 [] v = "3.9" -> 390 [] OTHER -> 0

Compare(a, op, b) ==
    CASE op = "<"  -> VersionKey(a) < VersionKey(b)
      [] op = ">=" -> VersionKey(a) >= VersionKey(b)
      [] OTHER     -> VersionKey(a) = VersionKey(b)

\* installedVersion in req.specifier
SpecifierContains(specifier, v) ==
    specifier = <<>> \/ Compare(v, specifier[1], specifier[2])

\* req.marker.evaluate(): python_version is the host's, extra is not set
MarkerEvaluate(marker, env) ==
    IF marker[1] = "python_version" THEN Compare(env.python, marker[2], marker[3])
    ELSE FALSE

\* InstallLogic.getInstalledPackageVersion: None (NotInstalled) on PackageNotFoundError
getInstalledPackageVersion(req, env) ==
    IF req.name \in DOMAIN env.pkg THEN env.pkg[req.name] ELSE NotInstalled

\* InstallLogic.isPackageInstalled
isPackageInstalled(req, env) == getInstalledPackageVersion(req, env) # NotInstalled

\* InstallLogic.isInstalledPackageCompatible
isInstalledPackageCompatible(req, env) ==
    IF getInstalledPackageVersion(req, env) # NotInstalled
    THEN SpecifierContains(req.specifier, getInstalledPackageVersion(req, env))
    ELSE TRUE

\* InstallLogic.isPackageInstalledAndCompatible
isPackageInstalledAndCompatible(req, env) ==
    isPackageInstalled(req, env) /\ isInstalledPackageCompatible(req, env)

\* variant: the marker is not looked at
needsToInstallRequirement_NoMarker(req, env) ==
    ~isPackageInstalled(req, env) \/ ~isInstalledPackageCompatible(req, env)

\* InstallLogic.needsToInstallRequirement
needsToInstallRequirement(req, env) ==
    IF req.marker # <<>> /\ ~MarkerEvaluate(req.marker, env) THEN FALSE
    ELSE ~isPackageInstalled(req, env) \/ ~isInstalledPackageCompatible(req, env)

RECURSIVE PyListRepr(_)
\* the inside of str(list): 'a', 'b'
PyListRepr(items) ==
    IF items = <<>> THEN <<>>
    ELSE IF Len(items) = 1 THEN <<"'", items[1], "'">>
    ELSE <<"'", items[1], "'", ",", " ">> \o PyListRepr(Tail(items))

\* str(req.marker): variable, operator and double-quoted value, or str(None)
StrOfMarker(marker) ==
    IF marker = <<>> THEN <<"None">>
    ELSE <<marker[1], " ", marker[2], " ", "\"", marker[3], "\"">>

StartsWith(text, prefix) ==
    Len(text) >= Len(prefix) /\ SubSeq(text, 1, Len(prefix)) = prefix

\* part is a run of consecutive tokens of whole
Contains(whole, part) ==
    \E i \in 0..(Len(whole) - Len(part)) : SubSeq(whole, i + 1, i + Len(part)) = part

RECURSIVE Remove(_, _)
\* text.replace(old, "")
Remove(text, old) ==
    IF text = <<>> THEN <<>>
    ELSE IF StartsWith(text, old) THEN Remove(SubSeq(text, Len(old) + 1, Len(text)), old)
    ELSE <<text[1]>> \o Remove(Tail(text), old)

\* the tokens made of characters that \W matches
NonWordTokens == {" ", "\"", "'", "==", "<", ">=", "[", "]", ",", ";"}

\* re.sub(r"\W+", '', text)
ReSubNonWord(text) == SelectSeq(text, LAMBDA c : c \notin NonWordTokens)

ExtraPattern == <<"extra", " ", "==", " ">>

\* extras = str(extras) if extras else ""
ExtrasString(extras) ==
    IF extras = <<>> THEN <<>> ELSE <<"[">> \o PyListRepr(extras) \o <<"]">>

\* InstallLogic.cleanPyPiRequirement
cleanPyPiRequirement(text) ==
    LET req        == Requirement(text)
        extras     == ExtrasString(req.extras)
        req_marker == StrOfMarker(req.marker)
    IN  <<req.name>>
            \o (IF extras = <<>> /\ StartsWith(req_marker, ExtraPattern)
                THEN <<"[">> \o ReSubNonWord(Remove(req_marker, ExtraPattern)) \o <<"]">>
                ELSE extras)
            \o req.specifier

\* requirement strings: those of the tests, and their like
RequirementTexts ==
    {<<"torch">>,
     <<"torch", " ", "<", " ", "1.0">>,
     <<"torch", " ", "<", " ", "1.0", ";", " ", "python_version", "<", "'", "3.9", "'">>,
     <<"torch", ">=", "1.0", ";", "python_version", ">=", "'", "3.8", "'">>,
     <<"torch", "==", "2.3.0">>,
     <<"not_package">>,
     <<"not_package", ">=", "1.0", " ", ";", " ", "extra", " ", "==", " ", "'", "dev", "'">>,
     <<"ruff", " ", ";", " ", "extra", " ", "==", " ", "'", "dev", "'">>,
     <<" ", " ", "nibabel", " ", ">=", "2.3.0", " ">>,
     <<"nibabel", "[", "test", "]", ">=", "2.3.0">>,
     <<"nibabel", "[", "test", ",", " ", "dev", "]">>,
     <<"pandas", "[", "test", "]", " ", ";", " ", "extra", "==", "'", "dev", "'">>}

\* an environment in which torch has the given version
EnvWith(python, torchVersion) ==
    [ReadyEnv EXCEPT !.python = python, !.pkg["torch"] = torchVersion]

InitReq ==
    /\ processKind = "Process"
    /\ nnUNetParam = NoParam
    /\ disk \in {[m \in {ModelAt("nii")} |-> ModelLayout("nii")]}
    /\ qstate = "NotRunning"
    /\ pid = 0
    /\ alive = {}
    /\ exitStatus = "none"
    /\ waiting = FALSE
    /\ scratch = EmptyScratch
    /\ settings = EmptySettings
    /\ stored = EmptySettings
    /\ lastOp = "init"
    /\ trace = <<>>
    /\ ret = NoRet
    /\ pyenv \in {EnvWith(python, v) : python \in {"3.8", "3.9"},
                                       v \in {NotInstalled, "0.9", "1.0", "2.3.0"}}
    /\ installLogic = NewInstallLogic(TRUE)
    /\ widget = NoWidget

\* InstallLogic.isPackageInstalled / isInstalledPackageCompatible /
\* isPackageInstalledAndCompatible / needsToInstallRequirement on one requirement
RequirementQueries ==
    \E text \in RequirementTexts :
        /\ Did("requirementQueries", <<>>,
               [status     |-> "returned",
                text       |-> text,
                installed  |-> isPackageInstalled(Requirement(text), pyenv),
                compatible |-> isInstalledPackageCompatible(Requirement(text), pyenv),
                installedAndCompatible |->
                    isPackageInstalledAndCompatible(Requirement(text), pyenv),
                needsToInstall |-> needsToInstallRequirement(Requirement(text), pyenv)])
        /\ UNCHANGED <<hostVars, processKind, nnUNetParam, disk, procVars, scratch,
                       settings, stored>>

\* InstallLogic.cleanPyPiRequirement(text)
CleanPyPiRequirementCall ==
    \E text \in RequirementTexts :
        /\ Did("cleanPyPiRequirement", <<>>,
               [status |-> "returned", text |-> text, out |-> cleanPyPiRequirement(text)])
        /\ UNCHANGED <<hostVars, processKind, nnUNetParam, disk, procVars, scratch,
                       settings, stored>>

NextReq == RequirementQueries \/ CleanPyPiRequirementCall

SpecReq == InitReq /\ [][NextReq]_vars

-----------------------------------------------------------------------------
(* Properties of the requirement functions *)

\* what the requirement strings say, and what the environment holds: the marker
\* python_version < '3.9' is false on Python 3.9 and extra == 'dev' is false; the
\* specifiers are < 1.0, == 2.3.0, >= 1.0
ReqFacts ==
    LET name == CHOOSE n \in {"torch", "not_package", "ruff", "nibabel", "pandas"} :
                    \E i \in DOMAIN ret.text : ret.text[i] = n
        has(tok) == \E i \in DOMAIN ret.text : ret.text[i] = tok
        version == IF name \in DOMAIN pyenv.pkg THEN pyenv.pkg[name] ELSE ""
    IN  [installed   |-> version # "",
         markerFalse |-> \/ has("extra")
                         \/ (has("python_version") /\ has("<") /\ pyenv.python = "3.9"),
         satisfied   |-> CASE has("<") /\ has("1.0") -> version = "0.9"
                           [] has("==") /\ has("2.3.0") -> version = "2.3.0"
                           [] has(">=") /\ has("1.0") -> version \in {"1.0", "2.3.0"}
                           [] OTHER -> TRUE]

\* C13: needsToInstallRequirement is false when the marker evaluates false, and
\* otherwise true exactly when the package is not installed or its version does not
\* satisfy the specifier; for a package that is not installed
\* isInstalledPackageCompatible is true, isPackageInstalledAndCompatible is false
\* and (the marker allowing) needsToInstallRequirement is true.
C13_NeedsToInstall ==
    lastOp = "requirementQueries" =>
        /\ ReqFacts.markerFalse => ~ret.needsToInstall
        /\ ~ReqFacts.markerFalse =>
              (ret.needsToInstall <=> (~ReqFacts.installed \/ ~ReqFacts.satisfied))
        /\ ~ReqFacts.installed =>
              /\ ret.compatible
              /\ ~ret.installed
              /\ ~ret.installedAndCompatible
              /\ (~ReqFacts.markerFalse => ret.needsToInstall)

\* numpy-like case of the tests: installed, incompatible, and the marker is false
C13_Witness ==
    /\ lastOp = "requirementQueries"
    /\ ret.text = <<"torch", " ", "<", " ", "1.0", ";", " ", "python_version", "<", "'", "3.9", "'">>
    /\ pyenv.python = "3.9"
    /\ pyenv.pkg["torch"] = "2.3.0"
    /\ ret.installed /\ ~ret.compatible
    /\ ~ret.needsToInstall

\* the requirement strings as name, extras, specifier
CleanedForm ==
    (<<"torch">> :> <<"torch">>)
        @@ (<<"torch", " ", "<", " ", "1.0">> :> <<"torch", "<", "1.0">>)
        @@ (<<"torch", " ", "<", " ", "1.0", ";", " ", "python_version", "<", "'", "3.9", "'">>
                :> <<"torch", "<", "1.0">>)
        @@ (<<"torch", ">=", "1.0", ";", "python_version", ">=", "'", "3.8", "'">>
                :> <<"torch", ">=", "1.0">>)
        @@ (<<"torch", "==", "2.3.0">> :> <<"torch", "==", "2.3.0">>)
        @@ (<<"not_package">> :> <<"not_package">>)
        @@ (<<"not_package", ">=", "1.0", " ", ";", " ", "extra", " ", "==", " ", "'", "dev", "'">>
                :> <<"not_package", "[", "dev", "]", ">=", "1.0">>)
        @@ (<<"ruff", " ", ";", " ", "extra", " ", "==", " ", "'", "dev", "'">>
                :> <<"ruff", "[", "dev", "]">>)
        @@ (<<" ", " ", "nibabel", " ", ">=", "2.3.0", " ">> :> <<"nibabel", ">=", "2.3.0">>)
        @@ (<<"nibabel", "[", "test", "]", ">=", "2.3.0">>
                :> <<"nibabel", "[", "test", "]", ">=", "2.3.0">>)
        @@ (<<"nibabel", "[", "test", ",", " ", "dev", "]">>
                :> <<"nibabel", "[", "test", ",", "dev", "]">>)
        @@ (<<"pandas", "[", "test", "]", " ", ";", " ", "extra", "==", "'", "dev", "'">>
                :> <<"pandas", "[", "test", "]">>)

\* C14: cleanPyPiRequirement gives the name, the extras in brackets and the
\* specifier, without whitespace and without the marker; a marker extra == 'X' on a
\* requirement without extras gives pkg[X].
C14_CleanedRequirement ==
    lastOp = "cleanPyPiRequirement" => ret.out = CleanedForm[ret.text]

-----------------------------------------------------------------------------
(* Widget: the controls, and what the widget calls on its two logics.  The   *)
(* logics are the protocols the Widget is built with: a call is recorded in  *)
(* calls, its outcome is drawn, and the signals of the segmentation logic    *)
(* arrive as steps of their own.                                             *)
(*   running : the segmentation logic has a run whose inferenceFinished has  *)
(*             not been emitted yet                                          *)
(*   segName : the name of the segmentation node loaded last, <<>> if none   *)
(*   inferenceErrors : how many times onInferenceFinished and                *)
(*             onInferenceError have called _reportError                     *)

\* length of the call record up to which the widget is driven
MaxCalls == 9

NoVolume == <<>>

Volumes == {<<"CT">>}

WCall(o, e, a) == [o |-> o, e |-> e, a |-> a]

PyBool(b) == IF b THEN <<"True">> ELSE <<"False">>

Called(w, o, e, a) == [w EXCEPT !.calls = Append(@, WCall(o, e, a))]

_setButtonsEnabled(w, isEnabled) ==
    [w EXCEPT !.installEnabled = isEnabled,
              !.applyEnabled = isEnabled,
              !.inputEnabled = isEnabled]

_setApplyVisible(w, isVisible) ==
    _setButtonsEnabled([w EXCEPT !.applyVisible = isVisible, !.stopVisible = ~isVisible],
                       isVisible)

\* Widget.__init__ followed by inputSelector.setCurrentNode(volume) and show()
NewWidget(volume) ==
    _setApplyVisible([inputEnabled |-> TRUE, installEnabled |-> TRUE,
                      applyEnabled |-> volume # NoVolume, applyVisible |-> TRUE,
                      stopVisible |-> TRUE, isStopping |-> FALSE, volume |-> volume,
                      segName |-> <<>>, running |-> FALSE, calls |-> <<>>,
                      inferenceErrors |-> 0], TRUE)

\* Widget.onInstall: setupPythonRequirements returns success
onInstall(w, success) ==
    _setButtonsEnabled(
        Called(_setButtonsEnabled(w, FALSE),
               "installLogic", "setupPythonRequirements", PyBool(success)),
        TRUE)

\* Widget.onInferenceError
onInferenceError(w) ==
    IF w.isStopping THEN w
    ELSE [_setApplyVisible(w, TRUE) EXCEPT !.inferenceErrors = @ + 1]

\* variant: the result is loaded whether the widget is stopping or not
onInferenceFinished_AlsoWhileStopping(w, loaded) ==
    LET c == Called(w, "logic", "loadSegmentation", <<>>)
        named == IF ~loaded THEN [c EXCEPT !.inferenceErrors = @ + 1]
                 ELSE IF w.volume = NoVolume
                      THEN [c EXCEPT !.segName = <<"Segmentation">>]
                      ELSE [c EXCEPT !.segName = w.volume \o <<"Segmentation">>]
    IN  _setApplyVisible(named, TRUE)

\* Widget.onInferenceFinished: loadSegmentation returns a node (loaded) or raises
\* RuntimeError; the node is renamed after the selected volume, and without a
\* selected volume the renaming raises and the node keeps its own name
onInferenceFinished(w, loaded) ==
    IF w.isStopping THEN _setApplyVisible(w, TRUE)
    ELSE LET c == Called(w, "logic", "loadSegmentation", <<>>)
             named == IF ~loaded THEN [c EXCEPT !.inferenceErrors = @ + 1]
                      ELSE IF w.volume = NoVolume
                           THEN [c EXCEPT !.segName = <<"Segmentation">>]
                           ELSE [c EXCEPT !.segName = w.volume \o <<"Segmentation">>]
         IN  _setApplyVisible(named, TRUE)

\* variant: the parameter is handed over after the start
_runSegmentation_StartFirst(w, needsRestart, launched, loaded) ==
    IF needsRestart THEN onInferenceFinished(w, loaded)
    ELSE LET c == Called(Called(w, "logic", "startSegmentation", w.volume),
                         "logic", "setParameter", <<>>)
         IN  IF launched THEN [c EXCEPT !.running = TRUE]
             ELSE onInferenceError(Called(c, "logic", "errorOccurred", <<>>))

\* Widget._runSegmentation: startSegmentation either launches a run or emits
\* errorOccurred before it returns
_runSegmentation(w, needsRestart, launched, loaded) ==
    IF needsRestart THEN onInferenceFinished(w, loaded)
    ELSE LET c == Called(Called(w, "logic", "setParameter", <<>>),
                         "logic", "startSegmentation", w.volume)
         IN  IF launched THEN [c EXCEPT !.running = TRUE]
             ELSE onInferenceError(Called(c, "logic", "errorOccurred", <<>>))

\* variant: the segmentation is run whatever the install step says
onApply_IgnoringInstall(w, success, needsRestart, launched, loaded) ==
    IF w.volume = NoVolume THEN w
    ELSE _runSegmentation(_setApplyVisible(onInstall(w, success), FALSE),
                          FALSE, launched, loaded)

\* Widget.onApply: needsRestart is installLogic.needsRestart as
\* setupPythonRequirements leaves it
onApply(w, success, needsRestart, launched, loaded) ==
    IF w.volume = NoVolume THEN w
    ELSE LET installed == onInstall(w, success)
         IN  IF ~success THEN installed
             ELSE IF needsRestart THEN installed
             ELSE _runSegmentation(_setApplyVisible(installed, FALSE),
                                   needsRestart, launched, loaded)

\* Widget.onStopClicked up to the call of waitForSegmentationFinished
_stopAndWait(w) ==
    Called(Called([w EXCEPT !.isStopping = TRUE], "logic", "stopSegmentation", <<>>),
           "logic", "waitForSegmentationFinished", <<>>)

\* Widget.onStopClicked once waitForSegmentationFinished has returned
_afterWait(w) == _setApplyVisible([w EXCEPT !.isStopping = FALSE], TRUE)

\* Widget.onStopClicked: the run's inferenceFinished is emitted while the widget
\* waits (delivered), or not
onStopClicked(w, delivered) ==
    LET stopping == _stopAndWait(w)
        waited == IF w.running /\ delivered
                  THEN onInferenceFinished([stopping EXCEPT !.running = FALSE], FALSE)
                  ELSE stopping
    IN  _afterWait(waited)

InitWidget ==
    /\ processKind = "Mock"
    /\ nnUNetParam = NoParam
    /\ disk \in {[m \in {ModelAt("nii")} |-> ModelLayout("nii")]}
    /\ qstate = "NotRunning"
    /\ pid = 0
    /\ alive = {}
    /\ exitStatus = "none"
    /\ waiting = FALSE
    /\ scratch = EmptyScratch
    /\ settings = EmptySettings
    /\ stored = EmptySettings
    /\ lastOp = "init"
    /\ trace = <<>>
    /\ ret = NoRet
    /\ pyenv = ReadyEnv
    /\ installLogic \in {[NewInstallLogic(FALSE) EXCEPT !.needsRestart = r] : r \in BOOLEAN}
    /\ widget \in {NewWidget(v) : v \in Volumes \cup {NoVolume}}

WidgetStep(op, w, r) ==
    /\ widget' = w
    /\ Did(op, <<>>, r)
    /\ UNCHANGED <<pyenv, processKind, nnUNetParam, disk, procVars, scratch, settings,
                   stored>>

\* a click on the Apply button
ClickApply ==
    /\ widget.applyEnabled /\ widget.applyVisible
    /\ Len(widget.calls) < MaxCalls
    /\ \E success \in BOOLEAN, restart \in BOOLEAN, launched \in BOOLEAN :
        LET needsRestart == installLogic.needsRestart \/ (success /\ restart)
        IN  /\ installLogic' = [installLogic EXCEPT !.needsRestart = needsRestart]
            /\ WidgetStep("onApply",
                          onApply(Called(widget, "applyButton", "clicked", <<>>),
                                  success, needsRestart, launched, FALSE),
                          [status |-> "returned", success |-> success,
                           needsRestart |-> needsRestart, launched |-> launched])

\* a click on the Install button
ClickInstall ==
    /\ widget.installEnabled
    /\ Len(widget.calls) < MaxCalls
    /\ \E success \in BOOLEAN, restart \in BOOLEAN :
        LET needsRestart == installLogic.needsRestart \/ (success /\ restart)
        IN  /\ installLogic' = [installLogic EXCEPT !.needsRestart = needsRestart]
            /\ WidgetStep("onInstall",
                          onInstall(Called(widget, "installButton", "clicked", <<>>), success),
                          [status |-> "returned", success |-> success,
                           needsRestart |-> needsRestart, launched |-> FALSE])

\* a click on the Stop button
ClickStop ==
    /\ widget.stopVisible
    /\ Len(widget.calls) < MaxCalls
    /\ \E delivered \in BOOLEAN :
        /\ WidgetStep("onStopClicked",
                      onStopClicked(Called(widget, "stopButton", "clicked", <<>>), delivered),
                      NoRet)
        /\ UNCHANGED installLogic

\* the scene is closed: the selected volume goes, then Widget.onSceneChanged
SceneClosed ==
    /\ Len(widget.calls) < MaxCalls
    /\ \E delivered \in BOOLEAN :
        /\ WidgetStep("onSceneChanged",
                      onStopClicked(Called([widget EXCEPT !.volume = NoVolume],
                                           "scene", "EndCloseEvent", <<>>), delivered),
                      NoRet)
        /\ UNCHANGED installLogic

\* the user selects a volume: Widget.onInputChanged
SelectVolume ==
    /\ widget.inputEnabled
    /\ \E v \in Volumes \cup {NoVolume} :
        /\ v # widget.volume
        /\ WidgetStep("onInputChanged",
                      [widget EXCEPT !.volume = v, !.applyEnabled = v # NoVolume], NoRet)
        /\ UNCHANGED installLogic

\* the segmentation logic emits inferenceFinished
InferenceFinished ==
    /\ widget.running
    /\ \E loaded \in BOOLEAN :
        /\ WidgetStep("onInferenceFinished",
                      onInferenceFinished(
                          Called([widget EXCEPT !.running = FALSE],
                                 "logic", "inferenceFinished", <<>>), loaded),
                      [status |-> IF loaded THEN "returned" ELSE "RuntimeError"])
        /\ UNCHANGED installLogic

\* the segmentation logic emits errorOccurred during a run; the run is over
\* (the process failed to start) or its inferenceFinished is still to come
InferenceError ==
    /\ widget.running
    /\ Len(widget.calls) < MaxCalls
    /\ \E over \in BOOLEAN :
        /\ WidgetStep("onInferenceError",
                      onInferenceError(
                          Called([widget EXCEPT !.running = ~over],
                                 "logic", "errorOccurred", <<>>)),
                      NoRet)
        /\ UNCHANGED installLogic

NextWidget ==
    \/ ClickApply
    \/ ClickInstall
    \/ ClickStop
    \/ SceneClosed
    \/ SelectVolume
    \/ InferenceFinished
    \/ InferenceError

SpecWidget == InitWidget /\ [][NextWidget]_vars

-----------------------------------------------------------------------------
(* InstallLogic.setupPythonRequirements.  The steps thread                   *)
(*   S = [env, L, tr, exc, failed, answers]                                  *)
(* env: the Python environment and the PyTorch extension ("missing",         *)
(* "installed" but not loaded before a restart, "loaded"), L: the fields of  *)
(* the InstallLogic, tr: what was called and logged, exc: the exception that *)
(* is propagating, "" if none, failed: the installers that were run and      *)
(* failed, answers: the questions asked with the user's answers.  A step     *)
(* does nothing while an exception propagates.                               *)

\* pip commands that fail in one attempt
MaxPipFailures == 1

\* the interpreter's recursion limit, in calls of pipInstallSelective
MaxDepth == 4

\* the element of a set of one element: Only({F(v) : v \in {e}}) is F(e) with e
\* computed once
Only(set) == CHOOSE r \in set : TRUE

\* a run of pip: the command line in a, the package it names in t
Pip(cmd, package) ==
    [o |-> "pip", e |-> cmd, t |-> Requirement(package).name, fwd |-> FALSE, a |-> package]

\* InstallLogic._log
_log(S, text) == [S EXCEPT !.tr = Append(@, Emission("installLogic", "progressInfo", text, FALSE))]

Raise(S, exc) == [S EXCEPT !.exc = exc]

Failed(S, step) == [S EXCEPT !.failed = @ \cup {step}]

\* qt.QMessageBox.question
Question(S, title, answerYes) ==
    [S EXCEPT !.tr = Append(@, Emission("qt", "question", title, FALSE)),
              !.answers = Append(@, <<title, answerYes>>)]

\* the characters of a token that str.startswith and `in` look into
Spell(tok) ==
    CASE tok = "torchvision" -> <<"torch", "vision">>
      [] tok = "pytorch" -> <<"py", "torch">>
      [] OTHER -> <<tok>>

RECURSIVE Chars(_)
Chars(text) == IF text = <<>> THEN <<>> ELSE Spell(Head(text)) \o Chars(Tail(text))

\* the package indexes pip can download from.  Declares: the requirements a
\* release declares, in the order of its METADATA file
Declares(index, name, version) ==
    CASE index = "nnunet" /\ name = "nnunetv2" ->
            << <<"torch", ">=", "1.0">>, <<"acvl-utils", ">=", "0.2">>,
               <<"dynamic_network_architectures", ">=", "0.2">>, <<"dep">>,
               <<"dep", ";", "python_version", "<", "'", "3.9", "'">> >>
      [] index = "nnunet" /\ name = "dynamic_network_architectures" ->
            << <<"torch", ">=", "1.0">> >>
      [] index = "vision" /\ name = "app" ->
            << <<"torch", ">=", "1.0">>, <<"lib">>, <<"torchvision">>, <<"pytorch">> >>
      [] index = "vision" /\ name = "lib" -> << <<"requests">>, <<"pytorch">> >>
      [] index = "cycle" /\ name = "a" -> << <<"b">> >>
      [] index = "cycle" /\ name = "b" -> << <<"torch">>, <<"a">> >>
      [] index = "flip" /\ name = "a" /\ version = "2.3.0" -> << <<"b", ">=", "1.0">> >>
      [] index = "flip" /\ name = "b" /\ version = "2.3.0" -> << <<"a", "<", "1.0">> >>
      [] index = "flip" /\ name = "a" /\ version = "0.9" -> << <<"b", "<", "1.0">> >>
      [] index = "flip" /\ name = "b" /\ version = "0.9" -> << <<"a", ">=", "1.0">> >>
      [] index = "stale" /\ name = "a" -> << <<"b", ">=", "1.0">> >>
      [] index = "stale" /\ name = "b" -> << <<"a", ">=", "1.0">> >>
      [] OTHER -> <<>>

\* the releases of a package an index holds
Versions(index, name) ==
    CASE index = "nnunet" /\ name = "nnunetv2" -> {"2.2", "2.3.0"}
      [] index = "nnunet" /\ name = "torch" -> {"0.9", "2.3.0"}
      [] index = "nnunet" /\ name = "dynamic_network_architectures" -> {"0.2.0", "0.4"}
      [] index = "nnunet" /\ name = "acvl_utils" -> {"0.2", "0.2.1"}
      [] index = "nnunet" /\ name \in {"pandas", "dep"} -> {"1"}
      [] index = "vision"
            /\ name \in {"app", "lib", "torch", "torchvision", "pytorch", "requests"} -> {"1"}
      [] index = "cycle" /\ name \in {"a", "b", "torch"} -> {"1"}
      [] index = "flip" /\ name \in {"a", "b"} -> {"0.9", "2.3.0"}
      [] index = "stale" /\ name \in {"a", "b"} -> {"0.9"}
      [] OTHER -> {}

\* the METADATA file of a release: header lines, then one Requires-Dist line for
\* each declared requirement
Metadata(index, name, version) ==
    << <<"Name: ", name>>, <<"Summary: ", "built", " ", "on", " ", "torch">> >>
        \o [i \in DOMAIN Declares(index, name, version) |->
                <<"Requires-Dist: ">> \o Declares(index, name, version)[i]]

\* importlib.metadata.requires(name): the values of the Requires-Dist lines of the
\* installed METADATA file
importlib_metadata_requires(env, name) ==
    LET lines == SelectSeq(env.meta[name], LAMBDA line : line[1] = "Requires-Dist: ")
    IN  [i \in DOMAIN lines |-> Tail(lines[i])]

\* the release pip settles on: the installed one when it satisfies the requirement,
\* else the newest that does, NotInstalled when the index has none
PipSelect(env, req) ==
    IF isPackageInstalledAndCompatible(req, env) THEN env.pkg[req.name]
    ELSE LET fit == {v \in Versions(env.index, req.name) : SpecifierContains(req.specifier, v)}
         IN  IF fit = {} THEN NotInstalled
             ELSE CHOOSE v \in fit : \A u \in fit : VersionKey(u) <= VersionKey(v)

nnUNetPackagesToSkip == {"SimpleITK", "torch", "requests", "acvl-utils"}

\* slicer.util.pip_install(package): CalledProcessError when pip fails, as it does
\* when no release fits; a requirement that is satisfied already changes nothing
slicer_util_pip_install(S, package, ok) ==
    Only({(IF ok /\ v # NotInstalled
           THEN [S EXCEPT !.tr = Append(@, Pip("install", package)),
                          !.env.pkg[Requirement(package).name] = v,
                          !.env.meta[Requirement(package).name] =
                              IF v = S.env.pkg[Requirement(package).name] THEN @
                              ELSE Metadata(S.env.index, Requirement(package).name, v)]
           ELSE Raise(Failed([S EXCEPT !.tr = Append(@, Pip("install", package))],
                             Requirement(package).name),
                      "CalledProcessError"))
          : v \in {PipSelect(S.env, Requirement(SelectSeq(package,
                                                          LAMBDA c : c # "--no-deps")))}})

\* InstallLogic.pip_install: CalledProcessError is logged
pip_install(S, package, ok) ==
    Only({(IF v.exc = "CalledProcessError"
           THEN _log([v EXCEPT !.exc = ""], "Install returned non-zero exit status")
           ELSE v)
          : v \in {slicer_util_pip_install(_log(S, "pip install"), package, ok)}})

\* InstallLogic.pip_uninstall: CalledProcessError is logged
pip_uninstall(S, name, ok) ==
    IF ok THEN [_log(S, "pip uninstall") EXCEPT !.tr = Append(@, Pip("uninstall", <<name>>)),
                                                 !.env.pkg[name] = NotInstalled,
                                                 !.env.meta[name] = <<>>]
    ELSE _log(Failed([_log(S, "pip uninstall")
                         EXCEPT !.tr = Append(@, Pip("uninstall", <<name>>))],
                     "uninstall"),
              "Uninstall returned non-zero exit status")

\* InstallLogic._installPandas
_installPandas(S, failing) ==
    Only({(IF v.exc # "" \/ v.env.pkg["pandas"] # NotInstalled THEN v
           ELSE pip_install(v, <<"pandas">>, "pandas" \notin failing))
          : v \in {S}})

\* InstallLogic._uninstallNNUnetIfNeeded
_uninstallNNUnetIfNeeded(S, failing) ==
    Only({(IF v.exc # "" \/ v.env.pkg["nnunetv2"] = NotInstalled THEN v
           ELSE pip_uninstall(v, "nnunetv2", "uninstall" \notin failing))
          : v \in {S}})

\* doSkipLine of _removeSkippedPackagesFromMetaDataFile
doSkipLine(metaLine, packagesToSkip) ==
    /\ metaLine[1] = "Requires-Dist: "
    /\ \E packageToSkip \in packagesToSkip : Contains(Chars(metaLine), Spell(packageToSkip))

\* InstallLogic._removeSkippedPackagesFromMetaDataFile: the file before and after
_removeSkippedPackagesFromMetaDataFile(S, packageToInstall, packagesToSkip) ==
    [S EXCEPT !.env.meta[packageToInstall] =
                  SelectSeq(@, LAMBDA line : ~doSkipLine(line, packagesToSkip)),
              !.tr = Append(@, Looked("METADATA", "rewrite", packageToInstall,
                                      <<S.env.meta[packageToInstall],
                                        SelectSeq(S.env.meta[packageToInstall],
                                                  LAMBDA line :
                                                      ~doSkipLine(line, packagesToSkip))>>))]

\* the inner loop of pipInstallSelective: requirement.startswith(packageToSkip)
skipThisPackage(requirement, packagesToSkip) ==
    \E packageToSkip \in packagesToSkip :
        StartsWith(Chars(requirement), Spell(packageToSkip))

RECURSIVE pipInstallSelective(_, _, _, _, _, _)
RECURSIVE InstallRequirements(_, _, _, _, _)

\* InstallLogic.pipInstallSelective, the loop over the requirements; R = <<S, skipped>>
InstallRequirements(R, requirements, packagesToSkip, failing, depth) ==
    Only({(IF requirements = <<>> \/ v[1].exc # "" THEN v
           ELSE InstallRequirements(
                    IF skipThisPackage(Head(requirements), packagesToSkip)
                    THEN <<v[1], Append(v[2], Head(requirements))>>
                    ELSE IF needsToInstallRequirement(Requirement(Head(requirements)), v[1].env)
                    THEN <<pipInstallSelective(
                               [v[1] EXCEPT !.tr = Append(@, Looked("installLogic",
                                                                    "needsToInstallRequirement",
                                                                    "True", Head(requirements)))],
                               Requirement(Head(requirements)).name, Head(requirements),
                               packagesToSkip, failing, depth + 1)[1], v[2]>>
                    ELSE <<[v[1] EXCEPT !.tr = Append(@, Looked("installLogic",
                                                                "needsToInstallRequirement",
                                                                "False", Head(requirements)))],
                           v[2]>>,
                    Tail(requirements), packagesToSkip, failing, depth))
          : v \in {R}})

\* InstallLogic.pipInstallSelective(packageToInstall, installCommand, packagesToSkip),
\* called at the given depth of recursion: <<S, skippedRequirements>>.
\* importlib.metadata.requires raises PackageNotFoundError for an absent package, and
\* the interpreter raises RecursionError beyond its recursion limit
pipInstallSelective(S, packageToInstall, installCommand, packagesToSkip, failing, depth) ==
    IF depth > MaxDepth THEN <<Raise(S, "RecursionError"), <<>> >>
    ELSE Only({(IF ~isPackageInstalled(Requirement(<<packageToInstall>>), installed.env)
                THEN <<Raise(installed, "PackageNotFoundError"), <<>> >>
                ELSE IF importlib_metadata_requires(installed.env, packageToInstall) = <<>>
                THEN <<[installed EXCEPT !.tr = Append(@, Looked("importlib.metadata",
                                                                 "requires", packageToInstall,
                                                                 <<>>))], <<>> >>
                ELSE InstallRequirements(
                         <<_removeSkippedPackagesFromMetaDataFile(
                               [installed EXCEPT !.tr =
                                    Append(@, Looked("importlib.metadata", "requires",
                                                     packageToInstall,
                                                     importlib_metadata_requires(
                                                         installed.env, packageToInstall)))],
                               packageToInstall, packagesToSkip), <<>> >>,
                         importlib_metadata_requires(installed.env, packageToInstall),
                         packagesToSkip, failing, depth))
               : installed \in {pip_install(S, cleanPyPiRequirement(installCommand)
                                                   \o <<" ", "--no-deps">>,
                                            packageToInstall \notin failing)}})

\* InstallLogic._installPyTorch; torchOk: torchLogic.installTorch returns a module
_installPyTorch(S, torchRequirements, torchOk) ==
    Only({(IF v.exc # "" THEN v
           ELSE IF v.env.ext # "loaded" THEN Raise(v, "RuntimeError")
           ELSE IF isPackageInstalled(Requirement(torchRequirements), v.env)
                   /\ isInstalledPackageCompatible(Requirement(torchRequirements), v.env)
           THEN v
           ELSE IF torchOk
           THEN [_log(v, "PyTorch Python package is required. Installing...")
                   EXCEPT !.tr = Append(@, Call("torchLogic", "installTorch")),
                          !.env.pkg["torch"] = PipSelect(v.env, Requirement(torchRequirements)),
                          !.env.meta["torch"] =
                              Metadata(v.env.index, "torch",
                                       PipSelect(v.env, Requirement(torchRequirements)))]
           ELSE Raise(Failed([_log(v, "PyTorch Python package is required. Installing...")
                                 EXCEPT !.tr = Append(@, Call("torchLogic", "installTorch"))],
                             "torch"),
                      "RuntimeError"))
          : v \in {S}})

\* InstallLogic._installNNUnet: <<S, torchRequirement>>, the first skipped
\* requirement with "torch" in it, StopIteration if there is none
_installNNUnet(S, nnunetRequirement, failing) ==
    Only({(IF R[1].exc # "" THEN <<R[1], <<>> >>
           ELSE IF SelectSeq(R[2], LAMBDA r : Contains(Chars(r), <<"torch">>)) = <<>>
           THEN <<Raise(R[1], "StopIteration"), <<>> >>
           ELSE <<R[1], SelectSeq(R[2], LAMBDA r : Contains(Chars(r), <<"torch">>))[1]>>)
          : R \in {(IF v.exc # "" THEN <<v, <<>> >>
                    ELSE pipInstallSelective(_uninstallNNUnetIfNeeded(v, failing), "nnunetv2",
                                             nnunetRequirement, nnUNetPackagesToSkip, failing,
                                             1))
                   : v \in {S}}})

\* InstallLogic._installACVLUtils
_installACVLUtils(S, failing) ==
    Only({(IF v.exc # "" THEN v
           ELSE IF v.env.pkg["acvl_utils"] # NotInstalled
                   /\ VersionKey(v.env.pkg["acvl_utils"]) = VersionKey("0.2")
           THEN v
           ELSE slicer_util_pip_install(
                    _log(v, "Installing a working acvl-utils package version..."),
                    <<"acvl_utils", "==", "0.2">>, "acvl_utils" \notin failing))
          : v \in {S}})

\* InstallLogic._downgradeDynamicNetworkArchitecture
_downgradeDynamicNetworkArchitecture(S, failing) ==
    Only({(IF v.exc # "" THEN v
           ELSE IF v.env.pkg["dynamic_network_architectures"] = NotInstalled
           THEN Raise(v, "PackageNotFoundError")
           ELSE IF VersionKey(v.env.pkg["dynamic_network_architectures"]) = VersionKey("0.4")
           THEN pip_install(
                    _log(v, "dynamic_network_architectures package version is incompatible."),
                    <<"dynamic_network_architectures", "==", "0.2.0">>,
                    "dynamic_network_architectures" \notin failing)
           ELSE v)
          : v \in {S}})

\* variant: the install goes on whatever the answer
_requestPermissionToInstallOrRaise_Proceeding(S, answerYes) ==
    Question(S, "nnUNet about to be installed", answerYes)

\* InstallLogic._requestPermissionToInstallOrRaise
_requestPermissionToInstallOrRaise(S, answerYes) ==
    IF answerYes THEN Question(S, "nnUNet about to be installed", TRUE)
    ELSE Raise(Question(S, "nnUNet about to be installed", FALSE), "RuntimeError")

\* InstallLogic.installTorchUtils
installTorchUtils(S, extOk) ==
    Only({(IF v.env.ext = "installed" THEN v
           ELSE IF extOk
           THEN [v EXCEPT !.tr = Append(@, Call("extensionManager",
                                                "installExtensionFromServer")),
                          !.env.ext = "installed"]
           ELSE Raise(Failed([v EXCEPT !.tr = Append(@, Call("extensionManager",
                                                             "installExtensionFromServer"))],
                             "extension"),
                      "RuntimeError"))
          : v \in {S}})

\* InstallLogic.installPyTorchExtensionAndRestartIfNeeded: _getTorchLogic raises
\* unless the extension is loaded
installPyTorchExtensionAndRestartIfNeeded(S, answerYes, extOk) ==
    Only({(IF v.env.ext = "loaded" THEN v
           ELSE IF ~v.L.doAskConfirmation THEN Raise(v, "RuntimeError")
           ELSE IF ~answerYes
           THEN Raise(Question(v, "Pytorch extension not found.", FALSE), "RuntimeError")
           ELSE installTorchUtils(
                    [Question(v, "Pytorch extension not found.", TRUE)
                        EXCEPT !.L.needsRestart = TRUE], extOk))
          : v \in {S}})

\* the steps of the install proper, once the install is permitted
InstallSteps(S, nnUNetRequirements, in) ==
    _downgradeDynamicNetworkArchitecture(
        _installACVLUtils(
            Only({_installPyTorch(N[1], N[2], in.torchOk)
                  : N \in {_installNNUnet(
                              _installPandas(
                                  Only({(IF v.exc # "" THEN v
                                         ELSE _log(v, "Start nnUNet install")) : v \in {S}}),
                                  in.failing),
                              nnUNetRequirements, in.failing)}}),
            in.failing),
        in.failing)

NewAttempt(env, L) ==
    [env |-> env, L |-> L, tr |-> <<>>, exc |-> "", failed |-> {}, answers |-> <<>>,
     result |-> FALSE]

\* the end of setupPythonRequirements: True, or the error is logged and False
Outcome(S) ==
    Only({(IF v.exc # ""
           THEN [_log(v, "Error occurred during install") EXCEPT !.result = FALSE]
           ELSE [v EXCEPT !.result = TRUE])
          : v \in {S}})

\* InstallLogic.setupPythonRequirements; in: the user's answers and what the
\* installers do
setupPythonRequirements(env, L, nnUNetRequirements, in) ==
    IF isPackageInstalledAndCompatible(Requirement(nnUNetRequirements), env)
    THEN Outcome(_log(NewAttempt(env, L), "nnUNet is already installed"))
    ELSE Outcome(Only(
            {(IF ext.exc # "" THEN ext
              ELSE IF ext.L.needsRestart
              THEN _log(ext, "Slicer needs to be restarted before continuing install.")
              ELSE Only({(IF v.exc # "" THEN v
                          ELSE _log(v, "nnUNet installation completed successfully."))
                         : v \in {InstallSteps(
                                    IF ext.L.doAskConfirmation
                                    THEN _requestPermissionToInstallOrRaise(ext,
                                                                            in.installAnswer)
                                    ELSE ext, nnUNetRequirements, in)}}))
             : ext \in {installPyTorchExtensionAndRestartIfNeeded(NewAttempt(env, L),
                                                                 in.extAnswer, in.extOk)}}))

PipSteps == {"pandas", "uninstall", "nnunetv2", "dynamic_network_architectures", "dep",
             "acvl_utils"}

\* the answers and installer outcomes an attempt in env can come to read
InstallInputs(env) ==
    IF env.ext # "loaded"
    THEN [extAnswer : BOOLEAN, extOk : BOOLEAN, installAnswer : {TRUE}, torchOk : {TRUE},
          failing : {{}}]
    ELSE [extAnswer : {TRUE}, extOk : {TRUE}, installAnswer : BOOLEAN, torchOk : BOOLEAN,
          failing : {F \in SUBSET PipSteps : Cardinality(F) <= MaxPipFailures}]

nnUNetRequirementTexts == {<<"nnunetv2">>, <<"nnunetv2", ">=", "2.3.0">>}

\* an environment that installs from the index: meta holds the METADATA files of
\* the installed packages
EnvOn(index, ext, pkg) ==
    [ext |-> ext, python |-> "3.9", index |-> index, pkg |-> pkg,
     meta |-> [n \in DOMAIN pkg |->
                IF pkg[n] = NotInstalled THEN <<>> ELSE Metadata(index, n, pkg[n])]]

InstallEnvs ==
    {EnvOn("nnunet", ext,
           [n \in Packages |->
                CASE n = "nnunetv2" -> nn [] n = "torch" -> to [] n = "acvl_utils" -> ac
                  [] n = "dynamic_network_architectures" -> dn [] n = "pandas" -> pa
                  [] OTHER -> NotInstalled]) :
        ext \in {"missing", "installed", "loaded"},
        nn \in {NotInstalled, "2.2"}, to \in {NotInstalled, "0.9"},
        ac \in {NotInstalled, "0.2.1"}, dn \in {NotInstalled, "0.2.0", "0.4"},
        pa \in {NotInstalled, "1"}}

InitInstall ==
    /\ processKind = "Process"
    /\ nnUNetParam = NoParam
    /\ disk \in {[m \in {ModelAt("nii")} |-> ModelLayout("nii")]}
    /\ qstate = "NotRunning"
    /\ pid = 0
    /\ alive = {}
    /\ exitStatus = "none"
    /\ waiting = FALSE
    /\ scratch = EmptyScratch
    /\ settings = EmptySettings
    /\ stored = EmptySettings
    /\ lastOp = "init"
    /\ trace = <<>>
    /\ ret = NoRet
    /\ pyenv \in InstallEnvs
    /\ installLogic \in {NewInstallLogic(ask) : ask \in BOOLEAN}
    /\ widget = NoWidget

\* InstallLogic.setupPythonRequirements(nnUNetRequirements), on a fresh environment
\* or again after an attempt
SetupPythonRequirements ==
    \E nnUNetRequirements \in nnUNetRequirementTexts, in \in InstallInputs(pyenv) :
        \E r \in {setupPythonRequirements(pyenv, installLogic, nnUNetRequirements, in)} :
            /\ pyenv' = r.env
            /\ installLogic' = r.L
            /\ Did("setupPythonRequirements", r.tr,
                   [status |-> "returned", result |-> r.result, exc |-> r.exc,
                    failed |-> r.failed, answers |-> r.answers,
                    requirements |-> nnUNetRequirements])
            /\ UNCHANGED <<widget, processKind, nnUNetParam, disk, procVars, scratch,
                           settings, stored>>

\* 3D Slicer is restarted: an installed extension is loaded, the module is built anew
RestartSlicer ==
    /\ pyenv.ext = "installed"
    /\ pyenv' = [pyenv EXCEPT !.ext = "loaded"]
    /\ installLogic' = NewInstallLogic(installLogic.doAskConfirmation)
    /\ Did("restart", <<>>, NoRet)
    /\ UNCHANGED <<widget, processKind, nnUNetParam, disk, procVars, scratch, settings,
                   stored>>

NextInstall == SetupPythonRequirements \/ RestartSlicer

SpecInstall == InitInstall /\ [][NextInstall]_vars

-----------------------------------------------------------------------------
(* InstallLogic.pipInstallSelective on its own: an index, what is installed  *)
(* from it, and calls with the installs that fail drawn                       *)

SelectiveEnvs ==
    {e \in InstallEnvs : e.ext = "loaded" /\ e.pkg["pandas"] = "1" /\ e.pkg["torch"] = "0.9"}
        \cup {EnvOn("vision", "loaded",
                    [n \in {"app", "lib", "torch", "torchvision", "pytorch", "requests"} |->
                        CASE n = "app" -> app [] n = "lib" -> lib [] n = "pytorch" -> pt
                          [] n = "torch" -> "1" [] OTHER -> NotInstalled]) :
                    app \in {NotInstalled, "1"}, lib \in {NotInstalled, "1"},
                    pt \in {NotInstalled, "1"}}
        \cup {EnvOn("cycle", "loaded", [n \in {"a", "b", "torch"} |->
                                            CASE n = "a" -> a [] n = "b" -> b [] OTHER -> "1"]) :
                    a \in {NotInstalled, "1"}, b \in {NotInstalled, "1"}}
        \cup {EnvOn("flip", "loaded", [n \in {"a", "b"} |-> IF n = "a" THEN a ELSE b]) :
                    a \in {NotInstalled, "0.9", "2.3.0"}, b \in {NotInstalled, "0.9", "2.3.0"}}
        \cup {EnvOn("stale", "loaded", [n \in {"a", "b"} |-> IF n = "a" THEN a ELSE b]) :
                    a \in {NotInstalled, "0.9"}, b \in {NotInstalled, "0.9"}}

\* the requirement strings pipInstallSelective is called with
SelectiveCommands(index) ==
    CASE index = "nnunet" -> nnUNetRequirementTexts \cup {<<"dep">>}
      [] index = "vision" -> {<<"app">>, <<"lib">>}
      [] index = "cycle" -> {<<"a">>, <<"b">>}
      [] index = "flip" -> {<<"a">>, <<"a", "<", "1.0">>, <<"b">>}
      [] OTHER -> {<<"a">>, <<"b", ">=", "1.0">>}

InitSelective ==
    /\ processKind = "Process"
    /\ nnUNetParam = NoParam
    /\ disk \in {[m \in {ModelAt("nii")} |-> ModelLayout("nii")]}
    /\ qstate = "NotRunning"
    /\ pid = 0
    /\ alive = {}
    /\ exitStatus = "none"
    /\ waiting = FALSE
    /\ scratch = EmptyScratch
    /\ settings = EmptySettings
    /\ stored = EmptySettings
    /\ lastOp = "init"
    /\ trace = <<>>
    /\ ret = NoRet
    /\ pyenv \in SelectiveEnvs
    /\ installLogic = NewInstallLogic(FALSE)
    /\ widget = NoWidget

\* InstallLogic.pipInstallSelective(packageToInstall, installCommand, packagesToSkip)
PipInstallSelective ==
    \E installCommand \in SelectiveCommands(pyenv.index),
       packagesToSkip \in {nnUNetPackagesToSkip, {"torch", "acvl-utils"}},
       failing \in {F \in SUBSET DOMAIN pyenv.pkg : Cardinality(F) <= MaxPipFailures} :
        \E r \in {pipInstallSelective(NewAttempt(pyenv, installLogic),
                                       Requirement(installCommand).name, installCommand,
                                       packagesToSkip, failing, 1)} :
            /\ pyenv' = r[1].env
            /\ Did("pipInstallSelective", r[1].tr,
                   [status |-> IF r[1].exc = "" THEN "returned" ELSE "raised",
                    exc |-> r[1].exc, skipped |-> r[2], failed |-> r[1].failed,
                    packageToInstall |-> Requirement(installCommand).name,
                    installCommand |-> installCommand, packagesToSkip |-> packagesToSkip])
            /\ UNCHANGED <<installLogic, widget, processKind, nnUNetParam, disk, procVars,
                           scratch, settings, stored>>

NextSelective == PipInstallSelective

SpecSelective == InitSelective /\ [][NextSelective]_vars

-----------------------------------------------------------------------------
(* The Widget on the SegmentationLogic it builds by default: Apply runs        *)
(* startSegmentation on the Process, and what the logic emits, within the call *)
(* or when the QProcess processes the end of its child, reaches the Widget's   *)
(* handlers.  The user clicks Apply only: Stop is never pressed and the scene  *)
(* is never closed.                                                           *)

RECURSIVE Deliver(_, _, _)
\* logic.inferenceFinished.connect(self.onInferenceFinished) and
\* logic.errorOccurred.connect(self.onInferenceError): the handlers run for the
\* emissions of tr, in order; progressInfo only writes to the log
Deliver(w, tr, loaded) ==
    IF tr = <<>> THEN w
    ELSE IF tr[1].o = "logic" /\ tr[1].e = "inferenceFinished"
    THEN Deliver(onInferenceFinished(Called([w EXCEPT !.running = FALSE],
                                            "logic", "inferenceFinished", <<>>), loaded),
                 Tail(tr), loaded)
    ELSE IF tr[1].o = "logic" /\ tr[1].e = "errorOccurred"
    THEN Deliver(onInferenceError(Called(w, "logic", "errorOccurred", <<>>)), Tail(tr), loaded)
    ELSE Deliver(w, Tail(tr), loaded)

InitRun ==
    /\ processKind = "Process"
    /\ nnUNetParam = NoParam
    /\ disk \in ModelDisks
    /\ qstate = "NotRunning"
    /\ pid = 0
    /\ alive = {}
    /\ exitStatus = "none"
    /\ waiting = FALSE
    /\ scratch = EmptyScratch
    /\ settings = EmptySettings
    /\ stored = EmptySettings
    /\ lastOp = "init"
    /\ trace = <<>>
    /\ ret = NoRet
    /\ pyenv = ReadyEnv
    /\ installLogic = NewInstallLogic(FALSE)
    /\ widget \in {NewWidget(v) : v \in Volumes}

\* a click on the Apply button: Widget.onApply, with _runSegmentation calling
\* setParameter and startSegmentation of the logic; an errorOccurred emitted within
\* startSegmentation runs onInferenceError before the call returns, and an
\* exception raised by startSegmentation leaves onApply at that point
ApplyOnProcess ==
    /\ ~waiting
    /\ widget.applyEnabled /\ widget.applyVisible
    /\ Len(widget.calls) < MaxCalls
    /\ \E success, exportOk, predictFound, launchOk, sync \in BOOLEAN :
       \E p \in {q \in LaunchParams : q.modelPath \in DOMAIN disk} :
          LET r == startSegmentation(processKind, p, CurProc,
                                     exportOk, predictFound, launchOk, sync)
              w == onApply(Called(widget, "applyButton", "clicked", <<>>), success,
                           installLogic.needsRestart,
                           Count(r.tr, "logic", "errorOccurred") = 0, FALSE)
          IN  IF success /\ ~installLogic.needsRestart
              THEN /\ widget' = [w EXCEPT !.running = r.P.qstate # "NotRunning"]
                   /\ nnUNetParam' = p
                   /\ SetProc(r.P)
                   /\ scratch' = r.scratch
                   /\ Did("onApply", r.tr, r.ret)
              ELSE /\ widget' = w
                   /\ Did("onApply", <<>>, [status |-> "returned", outcome |-> "notInstalled"])
                   /\ UNCHANGED <<nnUNetParam, procVars, scratch>>
    /\ UNCHANGED <<pyenv, installLogic, processKind, disk, waiting, settings, stored>>

\* QProcess processes the end of its child in the event loop; what the logic
\* emits for it reaches the Widget
EndOnProcess ==
    /\ qstate # "NotRunning"
    /\ pid \notin alive
    /\ qstate' = "NotRunning"
    /\ pid' = 0
    /\ exitStatus' = "none"
    /\ waiting' = FALSE
    /\ \E loaded \in BOOLEAN :
          LET w == [Deliver(widget, _onProcessEnded(exitStatus), loaded)
                       EXCEPT !.running = FALSE]
          IN  widget' = IF waiting THEN _afterWait(w) ELSE w
    /\ Did("processEnded", _onProcessEnded(exitStatus),
           [status |-> "event", how |-> exitStatus, endsStop |-> waiting])
    /\ UNCHANGED <<pyenv, installLogic, processKind, nnUNetParam, disk, alive,
                   scratch, settings, stored>>

\* a click on the Stop button, or the scene is closed (the selected volume goes,
\* then Widget.onSceneChanged): Widget.onStopClicked on the Process.  With no
\* process to wait for, the wait returns at once; otherwise the Widget stays in
\* waitForSegmentationFinished until the QProcess has processed the end of its
\* child
StopOnProcess ==
    /\ ~waiting
    /\ Len(widget.calls) < MaxCalls
    /\ \E w \in (IF widget.stopVisible THEN {Called(widget, "stopButton", "clicked", <<>>)}
                 ELSE {})
                 \cup {Called([widget EXCEPT !.volume = NoVolume],
                               "scene", "EndCloseEvent", <<>>)} :
          /\ SetProc(RunnerStop(processKind, CurProc).P)
          /\ waiting' = (qstate # "NotRunning")
          /\ widget' = IF qstate # "NotRunning" THEN _stopAndWait(w)
                       ELSE _afterWait(_stopAndWait(w))
          /\ Did("onStopClicked", RunnerStop(processKind, CurProc).tr,
                 [status |-> IF qstate # "NotRunning" THEN "blocked" ELSE "returned"])
    /\ UNCHANGED <<pyenv, installLogic, processKind, nnUNetParam, disk, scratch, settings,
                   stored>>

NextRun ==
    \/ ApplyOnProcess
    \/ ChildExits
    \/ EvStarted
    \/ EndOnProcess

SpecRun == InitRun /\ [][NextRun]_vars

NextRunStop ==
    \/ ApplyOnProcess
    \/ StopOnProcess
    \/ ChildExits
    \/ EvStarted
    \/ EndOnProcess

\* the same with a user who also clicks Stop and closes the scene
SpecRunStop == InitRun /\ [][NextRunStop]_vars

\* the inference ends some time, and the event loop of the application processes
\* the notifications of the QProcess
FairRun == SpecRun /\ WF_vars(ChildExits) /\ WF_vars(EvStarted) /\ WF_vars(EndOnProcess)

-----------------------------------------------------------------------------
(* Properties of setupPythonRequirements *)

Logged(tr, text) == \E i \in DOMAIN tr : tr[i].o = "installLogic" /\ tr[i].t = text

\* the installers that were called: pip, and the PyTorch installer
InstallerCalls(tr) == SelectSeq(tr, LAMBDA x : x.o \in {"pip", "torchLogic"})

ErrorLoggedLast(tr) ==
    tr # <<>> /\ tr[Len(tr)] = Emission("installLogic", "progressInfo",
                                        "Error occurred during install", FALSE)

\* C18: once the install proper has begun, setupPythonRequirements reports failure
\* exactly when the PyTorch install failed; the failure of any other install or
\* uninstall is swallowed and the sequence runs to its end
C18_OnlyTorchFailureAborts ==
    lastOp = "setupPythonRequirements" /\ Logged(trace, "Start nnUNet install")
        => /\ ret.result <=> "torch" \notin ret.failed
           /\ "torch" \notin ret.failed
                => Logged(trace, "nnUNet installation completed successfully.")

\* the attempt is declined: the extension is not loaded and no confirmation may be
\* asked, or the user answers No to a question
Declined ==
    \/ pyenv.ext # "loaded" /\ ~installLogic.doAskConfirmation
    \/ \E i \in DOMAIN ret'.answers : ~ret'.answers[i][2]

Aborted ==
    /\ InstallerCalls(trace') = <<>>
    /\ pyenv' = pyenv
    /\ installLogic' = installLogic
    /\ ~ret'.result
    /\ ErrorLoggedLast(trace')

\* C19 (as amended): when nnUNet is not yet installed in a compatible version and
\* the attempt is declined, nothing is installed or uninstalled, needsRestart is
\* left as it was, and setupPythonRequirements logs the error and returns False
C19_DeclinedInstallAborts ==
    [][(/\ lastOp' = "setupPythonRequirements"
        /\ ~isPackageInstalledAndCompatible(Requirement(ret'.requirements), pyenv)
        /\ Declined)
            => Aborted]_vars

C19_Witness ==
    /\ lastOp = "setupPythonRequirements"
    /\ ret.answers = << <<"nnUNet about to be installed", FALSE>> >>
    /\ pyenv.pkg["nnunetv2"] = NotInstalled
    /\ ~ret.result
    /\ ErrorLoggedLast(trace)

\* C19 (as stated): whenever the attempt is declined, whatever is installed already
C19_DeclinedAlwaysFails ==
    [][(lastOp' = "setupPythonRequirements" /\ Declined) => Aborted]_vars

\* C20: needsRestart becomes true in an attempt only when that attempt installed the
\* PyTorch extension, and an attempt that finds it true after the extension step
\* returns without calling an installer
C20_RestartOnlyAfterFreshExtension ==
    [][lastOp' = "setupPythonRequirements"
        => /\ (~installLogic.needsRestart /\ installLogic'.needsRestart)
                => (pyenv.ext = "missing" /\ pyenv'.ext = "installed")
           /\ (installLogic'.needsRestart /\ ret'.exc = "")
                => (InstallerCalls(trace') = <<>> /\ pyenv'.pkg = pyenv.pkg)]_vars

-----------------------------------------------------------------------------
(* Properties of pipInstallSelective *)

\* the string begins with an entry of the skip list
MatchesSkipList(text, skipList) ==
    \E entry \in skipList : StartsWith(Chars(text), Chars(<<entry>>))

\* the entries of a trace made on object o with call e, in order
Entries(tr, o, e) == SelectSeq(tr, LAMBDA x : x.o = o /\ x.e = e)

\* after position i the trace has an entry of call e with a as given
Later(tr, i, e, a) ==
    \E j \in (i + 1)..Len(tr) : tr[j].e = e /\ "a" \in DOMAIN tr[j] /\ tr[j].a = a

\* the first install is that of the package itself, and every install is --no-deps
InstallsWithoutDeps ==
    LET installs == Entries(trace, "pip", "install")
    IN  /\ installs # <<>>
        /\ installs[1].t = ret.packageToInstall
        /\ \A i \in DOMAIN installs : installs[i].a[Len(installs[i].a)] = "--no-deps"

\* no install is issued for a dependency that matches the skip list
NoSkippedInstalled ==
    LET installs == Entries(trace, "pip", "install")
    IN  \A i \in 2..Len(installs) : ~MatchesSkipList(installs[i].a, ret.packagesToSkip)

\* what is returned: the declared requirements of the package itself that match the
\* skip list, the empty list (and nothing more done) when it declares none
ReturnsTheSkipped ==
    LET reads == Entries(trace, "importlib.metadata", "requires")
    IN  ret.status = "returned"
            => /\ reads # <<>>
               /\ ret.skipped = SelectSeq(reads[1].a,
                                          LAMBDA r : MatchesSkipList(r, ret.packagesToSkip))
               /\ reads[1].a = <<>> => Len(Entries(trace, "pip", "install")) = 1

\* at every level, each declared requirement that does not match the skip list is
\* put to needsToInstallRequirement, and installed when that says so; none that
\* needs to be installed is left out
OthersInstalledWhenNeeded ==
    \A i \in DOMAIN trace :
        (trace[i].o = "importlib.metadata") =>
            \A k \in DOMAIN trace[i].a :
                ~MatchesSkipList(trace[i].a[k], ret.packagesToSkip) =>
                    /\ \/ Later(trace, i, "needsToInstallRequirement", trace[i].a[k])
                       \/ ~needsToInstallRequirement(Requirement(trace[i].a[k]), pyenv)
                    /\ \A j \in (i + 1)..Len(trace) :
                            (/\ trace[j].e = "needsToInstallRequirement"
                             /\ trace[j].t = "True"
                             /\ trace[j].a = trace[i].a[k])
                                => Later(trace, j, "install",
                                         cleanPyPiRequirement(trace[i].a[k])
                                             \o <<" ", "--no-deps">>)

\* C21: pipInstallSelective installs the package with --no-deps, at no level installs
\* a declared dependency whose requirement string starts with an entry of the skip
\* list, returns the package's own declared requirements that match the skip list
\* (the empty list when it declares none), and installs every other declared
\* dependency that needsToInstallRequirement reports as needed
C21_SelectiveInstall ==
    lastOp = "pipInstallSelective"
        => /\ InstallsWithoutDeps
           /\ NoSkippedInstalled
           /\ ReturnsTheSkipped
           /\ OthersInstalledWhenNeeded

\* the lines of a METADATA file that declare a requirement matching the skip list
SkippedLines(lines, skipList) ==
    SelectSeq(lines, LAMBDA line : /\ line[1] = "Requires-Dist: "
                                   /\ MatchesSkipList(Tail(line), skipList))

\* C22: when pipInstallSelective has installed a package that declares dependencies,
\* its METADATA file has no Requires-Dist line of a skipped dependency, and every
\* other line of the file is kept, in place
C22_MetadataWithoutSkipped ==
    lastOp = "pipInstallSelective" =>
        \A i \in DOMAIN trace :
            (trace[i].o = "METADATA") =>
                /\ SkippedLines(trace[i].a[2], ret.packagesToSkip) = <<>>
                /\ trace[i].a[2] =
                      SelectSeq(trace[i].a[1],
                                LAMBDA line :
                                    ~(/\ line[1] = "Requires-Dist: "
                                      /\ MatchesSkipList(Tail(line), ret.packagesToSkip)))

\* C29: every call of pipInstallSelective ends by itself, whatever the dependency
\* graph and whichever installs fail: the recursion is never so deep that the
\* interpreter's recursion limit cuts it off
C29_RecursionEnds ==
    lastOp = "pipInstallSelective" => ret.exc # "RecursionError"

-----------------------------------------------------------------------------
(* Properties of the Widget *)

ControlsDisabled(w) ==
    ~w.inputEnabled /\ ~w.installEnabled /\ ~w.applyVisible /\ w.stopVisible

ControlsEnabled(w) ==
    w.inputEnabled /\ w.installEnabled /\ w.applyVisible /\ ~w.stopVisible

ApplyClicked == WCall("applyButton", "clicked", <<>>)

FinishedArrived == WCall("logic", "inferenceFinished", <<>>)

\* the entries of c that are calls of method e
CallsOf(c, e) == SelectSeq(c, LAMBDA x : x.e = e)

\* the position of the last click on Apply, 0 if there is none
LastApply(c) ==
    IF \E i \in DOMAIN c : c[i] = ApplyClicked
    THEN CHOOSE i \in DOMAIN c : c[i] = ApplyClicked /\ \A j \in (i + 1)..Len(c) : c[j] # ApplyClicked
    ELSE 0

\* the last click on Apply started a segmentation
StartedByLastApply(c) ==
    /\ LastApply(c) > 0
    /\ \E j \in LastApply(c)..Len(c) : c[j].e = "startSegmentation"

\* what may end the wait for a started segmentation
Interruptions ==
    {WCall("logic", "errorOccurred", <<>>), WCall("stopButton", "clicked", <<>>),
     WCall("scene", "EndCloseEvent", <<>>)}

\* nothing of the set has been recorded since the last click on Apply
NoneSinceLastApply(c, events) == \A j \in LastApply(c)..Len(c) : j = 0 \/ c[j] \notin events

\* the step is the handling of event, recorded first
StepHandles(event) ==
    /\ Len(widget'.calls) > Len(widget.calls)
    /\ widget'.calls[Len(widget.calls) + 1] = event

NewCalls == SubSeq(widget'.calls, Len(widget.calls) + 1, Len(widget'.calls))

\* a click on Apply with a volume, a successful install and no restart needed makes
\* the three calls, once each and in this order
ApplyMakesTheCalls ==
    (StepHandles(ApplyClicked) /\ widget.volume # NoVolume /\ ret'.success
        /\ ~ret'.needsRestart)
        => /\ SubSeq(NewCalls, 1, 4) =
                <<ApplyClicked,
                  WCall("installLogic", "setupPythonRequirements", PyBool(TRUE)),
                  WCall("logic", "setParameter", <<>>),
                  WCall("logic", "startSegmentation", widget.volume)>>
           /\ \A e \in {"setupPythonRequirements", "setParameter", "startSegmentation"} :
                Len(CallsOf(NewCalls, e)) = 1
           /\ (ret'.launched => ControlsDisabled(widget'))

\* inferenceFinished for the segmentation the last click started: loadSegmentation
\* is called once, a loaded node is named after the volume, the controls come back
FinishedLoadsAndRestores(events) ==
    (/\ StepHandles(FinishedArrived)
     /\ StartedByLastApply(widget.calls)
     /\ NoneSinceLastApply(widget.calls, events \cup {FinishedArrived}))
        => /\ NewCalls = <<FinishedArrived, WCall("logic", "loadSegmentation", <<>>)>>
           /\ (ret'.status = "returned" => Contains(widget'.segName, widget.volume))
           /\ ControlsEnabled(widget')

\* the controls are locked while the started segmentation is awaited
LockedWhileAwaited(events) ==
    (StartedByLastApply(widget.calls) /\ NoneSinceLastApply(widget.calls, events))
        => ControlsDisabled(widget)

\* C15 (as amended): a click on Apply with a volume selected, a successful install
\* and no restart needed calls setupPythonRequirements, setParameter and
\* startSegmentation(volume) once each in this order; from then until inferenceFinished
\* or errorOccurred arrives, Stop is clicked or the scene is closed, selector and
\* install button are disabled, Apply is hidden and Stop is visible; when
\* inferenceFinished arrives first, loadSegmentation is called once, the node it
\* returns gets a name containing the volume's name, and the controls are restored
C15_ApplyRunsAndLocksControls ==
    /\ [][ApplyMakesTheCalls /\ FinishedLoadsAndRestores(Interruptions)]_vars
    /\ [] LockedWhileAwaited(Interruptions \cup {FinishedArrived})

C15_Witness ==
    /\ lastOp = "onInferenceFinished"
    /\ ret.status = "returned"
    /\ Len(widget.calls) = 6
    /\ widget.calls[4] = WCall("logic", "startSegmentation", <<"CT">>)
    /\ widget.calls[6] = WCall("logic", "loadSegmentation", <<>>)
    /\ widget.segName = <<"CT", "Segmentation">>
    /\ ControlsEnabled(widget)

\* C15 (as stated): ... from the click until inferenceFinished arrives the controls
\* are locked, whatever else happens in between
C15_LockedUntilInferenceFinished ==
    /\ [][ApplyMakesTheCalls /\ FinishedLoadsAndRestores({})]_vars
    /\ [] LockedWhileAwaited({FinishedArrived})

\* C16: whatever the number of clicks on Apply, startSegmentation is called only in
\* a click whose setupPythonRequirements returned success with needsRestart false;
\* a click whose install failed or left needsRestart true calls no startSegmentation
\* and ends with Apply visible, Stop hidden, selector and install button enabled
C16_StartOnlyAfterInstall ==
    [][/\ (Len(CallsOf(widget'.calls, "startSegmentation"))
                > Len(CallsOf(widget.calls, "startSegmentation")))
            => (StepHandles(ApplyClicked) /\ ret'.success /\ ~ret'.needsRestart)
       /\ (StepHandles(ApplyClicked) /\ Len(NewCalls) > 1
                /\ (~ret'.success \/ ret'.needsRestart))
            => (CallsOf(NewCalls, "startSegmentation") = <<>> /\ ControlsEnabled(widget'))
      ]_vars

C16_Witness ==
    /\ lastOp = "onApply"
    /\ ret.success /\ ret.needsRestart
    /\ Len(CallsOf(widget.calls, "clicked")) >= 2
    /\ widget.calls[Len(widget.calls) - 1] = ApplyClicked
    /\ CallsOf(widget.calls, "startSegmentation") = <<>>
    /\ ControlsEnabled(widget)

\* C27: whenever Apply has hidden the apply button and locked the controls, the
\* apply button is visible and the controls are enabled again some time later,
\* in whatever way the run ends and without Stop being pressed.
C27_ControlsComeBack == ControlsDisabled(widget) ~> ControlsEnabled(widget)

StopClicked == WCall("stopButton", "clicked", <<>>)

SceneClosedEvent == WCall("scene", "EndCloseEvent", <<>>)

\* nothing is loaded and no error is displayed in a step that starts with the
\* Widget inside onStopClicked
SuppressedWhileStopping ==
    widget.isStopping =>
        /\ CallsOf(NewCalls, "loadSegmentation") = <<>>
        /\ widget'.inferenceErrors = widget.inferenceErrors
        /\ widget'.segName = widget.segName

\* onStopClicked has returned in the last step
StopReturned ==
    \/ (lastOp = "onStopClicked" /\ ret.status = "returned")
    \/ (lastOp = "processEnded" /\ ret.endsStop)

\* every loadSegmentation belongs to a run that no Stop and no scene close cancelled
NoLoadAfterStop(c) ==
    \A i \in DOMAIN c :
        c[i].e = "loadSegmentation" =>
            /\ LastApply(SubSeq(c, 1, i)) > 0
            /\ \A j \in LastApply(SubSeq(c, 1, i))..i : c[j] \notin {StopClicked, SceneClosedEvent}

-----------------------------------------------------------------------------
(* Properties of the launcher *)

\* C1: whatever startSegmentation, stopSegmentation, waitForSegmentationFinished
\* calls and process events have happened, at most one external inference process
\* of the logic instance is running.
C1_AtMostOneProcess == Cardinality(alive) <= 1

\* a start was issued while the process of an earlier start was still running
C1_Witness ==
    /\ lastOp = "startSegmentation"
    /\ ret.outcome = "started"
    /\ ret.prevRunning
    /\ Cardinality(alive) <= 1

\* C2: a startSegmentation that reaches the launch while the process of an earlier
\* start is still running kills that process before it starts the new one, issues
\* exactly one process start, and leaves the new run's process running in place of
\* the old one (last call wins).
C2_RestartReplacesRunningProcess ==
    (lastOp = "startSegmentation" /\ ret.outcome = "started" /\ ret.prevRunning) =>
        /\ ret.prevStopped
        /\ Count(trace, "qprocess", "kill") = 1
        /\ Count(trace, "qprocess", "start") = 1
        /\ FirstIndex(trace, "qprocess", "kill") < FirstIndex(trace, "qprocess", "start")
        /\ ret.spawned

\* the launch cannot happen: no exported file, no executable, or a Parameter that
\* isValid rejects
LaunchImpossible ==
    \/ ~ret.exportOk
    \/ ~ret.predictFound
    \/ isValid(nnUNetParam).reason \in
          {MsgNoDataset, MsgMissingFolds, MsgInvalidWeights, MsgInvalidConf, MsgInvalidDataset}

ForwardedAs(sig) ==
    CASE sig = "finished" -> "inferenceFinished"
      [] sig = "readInfo" -> "progressInfo"
      [] OTHER            -> "errorOccurred"

\* C7: every finished / readInfo / errorOccurred emission of the process runner is
\* followed at once by exactly one inferenceFinished / progressInfo / errorOccurred
\* emission of the logic with the same text, whatever the exit code, and the logic
\* forwards nothing else.
C7_ProcessSignalsForwardedOnce ==
    \A i \in DOMAIN trace :
        /\ trace[i].o = "process" =>
              /\ i < Len(trace)
              /\ trace[i + 1] = Emission("logic", ForwardedAs(trace[i].e), trace[i].t, TRUE)
              /\ (i + 2 <= Len(trace) => ~trace[i + 2].fwd)
        /\ trace[i].fwd => (i > 1 /\ trace[i - 1].o = "process")

\* the process ended with exit code 1 and the logic emitted inferenceFinished
C7_Witness ==
    /\ lastOp = "processEnded"
    /\ ret.how = "exit1"
    /\ Count(trace, "process", "finished") = 1
    /\ Count(trace, "logic", "inferenceFinished") = 1

\* C8: startSegmentation recreates the scratch directories and exports the volume
\* as exactly one file named with the file_ending of the model's dataset.json,
\* .nii.gz when it declares none.
C8_ExportUsesDatasetFileEnding ==
    (lastOp = "startSegmentation" /\ nnUNetParam # NoParam /\ ret.exportOk) =>
        /\ scratch.dirs
        /\ scratch.outFiles = {}
        /\ scratch.inFiles = {<<VolumeStem>> \o readFileEndingFromDatasetFile(nnUNetParam)}

\* the name ends with the given suffixes
HasFileEnding(f, ending) ==
    /\ Len(f) > Len(ending)
    /\ SubSeq(f, Len(f) - Len(ending) + 1, Len(f)) = ending

\* the output files that carry the file ending the model's dataset.json declares
DeclaredEndingFiles ==
    {f \in scratch.outFiles : HasFileEnding(f, readFileEndingFromDatasetFile(nnUNetParam))}

\* C9: loadSegmentation loads a file of the output directory that carries the file
\* ending declared by the model's dataset.json whenever there is one, and raises a
\* RuntimeError when there is none.
C9_LoadsFileWithDeclaredEnding ==
    (lastOp = "loadSegmentation" /\ nnUNetParam # NoParam) =>
        /\ DeclaredEndingFiles # {} =>
              (ret.status # "RuntimeError" /\ ret.file \in DeclaredEndingFiles)
        /\ DeclaredEndingFiles = {} => ret.status = "RuntimeError"

\* the entries of the labels map of the model's dataset.json
LabelEntries(p) ==
    IF _isDatasetPathValid(p) /\ Layout(p).hasLabels THEN Layout(p).labels ELSE <<>>

LabelNamesOf(p, v) ==
    {LabelName(LabelEntries(p)[i][1]) :
        i \in {j \in DOMAIN LabelEntries(p) : LabelEntries(p)[j][2] = v}}

\* C10: after loadSegmentation of a model whose dataset.json has a labels map (or
\* that has no dataset.json), every loaded segment Segment_<v> with a label entry
\* of value v carries that entry's name, every other segment keeps its generated
\* name, and entries without a segment raise nothing.
C10_SegmentsNamedFromLabels ==
    (/\ lastOp = "loadSegmentation"
     /\ nnUNetParam # NoParam
     /\ ret.file # NoFile
     /\ (_isDatasetPathValid(nnUNetParam) => Layout(nnUNetParam).hasLabels)) =>
        /\ ret.status = "ok"
        /\ \A v \in ret.segs :
              /\ LabelNamesOf(nnUNetParam, v) # {} =>
                    ret.names[v] \in LabelNamesOf(nnUNetParam, v)
              /\ LabelNamesOf(nnUNetParam, v) = {} => ret.names[v] = GeneratedName(v)

\* segments 1 and 2 loaded; the labels name values 0, 1 and 3
C10_Witness ==
    /\ lastOp = "loadSegmentation"
    /\ ret.status = "ok"
    /\ ret.segs = {1, 2}
    /\ LabelEntries(nnUNetParam) = TestLabels
    /\ ret.names[1] = LabelName("Test Label 1")
    /\ ret.names[2] = GeneratedName(2)

\* C17: stopSegmentation kills the inference process whenever it runs, in any phase
\* of a run, and changes nothing otherwise; waitForSegmentationFinished returns at
\* once when no process is active and otherwise only when the process has reported
\* its end, so that no process runs once the wait that follows a stop is over
C17_StopKillsInAnyPhase ==
    /\ [][processKind = "Process" /\ lastOp' = "stopSegmentation"
            => /\ pid \in alive => pid \notin alive'
               /\ pid \notin alive => UNCHANGED procVars]_vars
    /\ [][processKind = "Process" /\ lastOp' = "waitForSegmentationFinished"
            => /\ qstate = "NotRunning" => ret'.status = "returned" /\ ~waiting'
               /\ qstate # "NotRunning" => waiting']_vars
    /\ [][processKind = "Process" /\ waiting /\ ~waiting'
            => lastOp' = "processEnded" /\ qstate' = "NotRunning" /\ pid' \notin alive']_vars

\* the ways a child can end that are errors of the process: it could not be
\* executed, it crashed, or it exited with a code other than 0
ProcessLevelErrors == {"failedToStart", "crashed", "exit1"}

\* C23: when the QProcess reports that its child could not be started, crashed or
\* exited with a non-zero code, the logic emits errorOccurred, and no start of a
\* process follows within the handling of that end.
C23_ProcessErrorsReported ==
    (lastOp = "processEnded" /\ ret.how \in ProcessLevelErrors) =>
        /\ Count(trace, "logic", "errorOccurred") >= 1
        /\ Count(trace, "qprocess", "start") = 0
        /\ Count(trace, "runner", "start") = 0

EnvironNames == <<"nnUNet_preprocessed", "nnUNet_raw", "nnUNet_results">>

\* the index of the one call of the runner's start in the trace
StartIndex == FirstIndex(trace, "runner", "start")

\* within a startSegmentation that reaches the runner's start: validation has
\* passed and nothing was reported as an error, and the three variables are
\* assigned, in the three steps before the "nnUNet preprocessing..." progress
\* message that directly precedes the start, each to a directory of dirs
EnvironSetBeforeStart(dirs) ==
    /\ isValid(nnUNetParam).ok
    /\ Count(trace, "logic", "errorOccurred") = 0
    /\ StartIndex >= 5
    /\ trace[StartIndex - 1] = Emission("logic", "progressInfo", "nnUNet preprocessing...", FALSE)
    /\ \A k \in 1..3 :
          /\ trace[StartIndex - 5 + k].o = "environ"
          /\ trace[StartIndex - 5 + k].e = EnvironNames[k]
          /\ trace[StartIndex - 5 + k].a \in dirs
          /\ trace[StartIndex - 5 + k].a = trace[StartIndex - 4].a
    /\ Cardinality({i \in DOMAIN trace : trace[i].o = "environ"}) = 3

Launched == lastOp = "startSegmentation" /\ Count(trace, "runner", "start") = 1

\* the temporary directory of the logic and its input and output folders
ScratchDirs == {_tmpDirPath, nnUNetInDir, nnUNetOutDir}

\* C24 as stated: on every launch the three environment variables are set, after
\* validation and just before the start, to one scratch directory.
C24_EnvironSetToScratchDir == Launched => EnvironSetBeforeStart(ScratchDirs)

\* C24: on every launch the three environment variables are set, after validation
\* and just before the start, to the existing folder that holds the model's
\* Dataset folder.
C24_EnvironSetToModelFolder ==
    Launched => /\ EnvironSetBeforeStart({modelFolder(nnUNetParam)})
                /\ modelFolder(nnUNetParam).exists

\* a launch that spawned the inference process, with nnUNet_raw set to the folder
\* of the model
C24_Witness ==
    /\ Launched
    /\ processKind = "Process"
    /\ ret.spawned
    /\ \E i \in DOMAIN trace :
          /\ trace[i].o = "environ" /\ trace[i].e = "nnUNet_raw"
          /\ trace[i].a = modelFolder(nnUNetParam)
          /\ i < StartIndex

\* the model has no label dictionary: no dataset.json, or one without "labels"
NoLabelDictionary(p) == ~_isDatasetPathValid(p) \/ ~Layout(p).hasLabels

\* C25: when the model's dataset.json is absent or declares no labels map,
\* loadSegmentation of an existing output file raises nothing and returns the
\* segmentation with every segment under its generated name.
C25_MissingLabelsTolerated ==
    (/\ lastOp = "loadSegmentation"
     /\ nnUNetParam # NoParam
     /\ ret.file # NoFile
     /\ NoLabelDictionary(nnUNetParam)) =>
        /\ ret.status = "ok"
        /\ \A v \in ret.segs : ret.names[v] = GeneratedName(v)

\* C26: a startSegmentation that finds the inference process of an earlier start
\* still running kills it before it removes the scratch directory, also when the
\* new start then ends without launching.
C26_StoppedBeforeScratchCleared ==
    (lastOp = "startSegmentation" /\ processKind = "Process" /\ ret.prevRunning) =>
        /\ Count(trace, "qprocess", "kill") >= 1
        /\ FirstIndex(trace, "qprocess", "kill") < FirstIndex(trace, "fs", "remove")
        /\ ret.prevStopped

\* C30: isValid raises for no Parameter, whatever its folds string and model path,
\* so that a startSegmentation that gets as far as the configuration returns, and
\* reports a configuration that cannot be used through errorOccurred.
C30_IsValidTotal ==
    (lastOp = "startSegmentation" /\ nnUNetParam # NoParam /\ ret.exportOk /\ ret.predictFound) =>
        /\ isValid(nnUNetParam).raised = ""
        /\ ret.status = "returned"
        /\ ret.outcome # "started" => Count(trace, "logic", "errorOccurred") = 1

=============================================================================
